---- MODULE Spec2Model ----
(***************************************************************************)
(* A model of swift-inspect's Android remote heap enumerator:              *)
(*   CLib/heap.c    heap_iterate, the drain, the injected trampoline       *)
(*   CLib/remote.c  the remote libc wrappers                               *)
(*   CLib/proc.c    maps_iterate                                           *)
(*   ptrace.c       ptrace_call_remote_function_with_trap_callback         *)
(* The observer is one sequential program; every system call it makes is   *)
(* one step.  The target is a second process that runs only between a      *)
(* PTRACE_CONT (or PTRACE_DETACH) and its next stop.                       *)
(***************************************************************************)
EXTENDS Integers, Sequences, FiniteSets, TLC

(***************************************************************************)
(* Bounds of the model.                                                    *)
(***************************************************************************)
\* getpagesize() in units of 16 bytes (one header or one entry per unit).
PagePairs == 3
\* Most chunks a single remote malloc_iterate reports to its callback.
MaxChunks == 3
\* Most environment failures (failing system calls, target faults, target
\* death, failing libc calls in the target) injected in one run.
MaxFaults == 2

(***************************************************************************)
(* Program constants.                                                      *)
(***************************************************************************)
MAX_VALID_IDX == 0
NEXT_FREE_IDX == 1
HEADER_SIZE == 2
ENTRY_SIZE == 2
\* sizeof(uint64_t)
WordBytes == 8

PageSize == 16 * PagePairs
\* unsigned long -1 as the wrappers compare it (the all-ones word).
MinusOne == -1

Archs == {"arm64", "x86_64"}

(***************************************************************************)
(* The target's address space as the model lays it out.                    *)
(***************************************************************************)
\* Registers of the target before the observer touches it.  a holds the
\* six argument registers (x0..x5 / rdi,rsi,rdx,rcx,r8,r9), ip is pc/rip,
\* lr is x30 (ARM64 only), rax is x86-64 only, sp is the stack pointer.
OrigRegs == [a |-> <<11, 12, 13, 14, 15, 16>>, ip |-> 100, lr |-> 104,
             rax |-> 17, sp |-> 900]
ZeroRegs == [a |-> <<0, 0, 0, 0, 0, 0>>, ip |-> 0, lr |-> 0, rax |-> 0, sp |-> 0]

\* Where libc's functions sit in the target (what remote_dlsym resolves to).
LibcAddr == [mmap |-> 1001, munmap |-> 1002, malloc_disable |-> 1003,
             malloc_enable |-> 1004, malloc_iterate |-> 1005]
LibcNames == DOMAIN LibcAddr

\* Addresses the target's mmap hands out, in order, and other addresses.
\* brk is the offset of the trap instruction inside the trampoline; junk is
\* what the word below the stack pointer holds before it is poked; fault is
\* a non-null address a fault inside a function may report.
Layout == [data |-> 5000, code |-> 6000, brk |-> 8, junk |-> 77, fault |-> 4444]

NUL == ""

\* /proc/<pid>/maps of the target while it is walked: one record per line,
\* fields = what sscanf returns for the line, pathname as a sequence of
\* text pieces (memcmp and strcmp compare piece by piece, NUL padded).
TargetMaps == <<
  [fields |-> 7, start_addr |-> 7000, end_addr |-> 7100,
   permissions |-> <<"r", "w", "-", "p">>,
   pathname |-> <<"[anon:", "libc_malloc", "]">>],
  [fields |-> 5, start_addr |-> 7200, end_addr |-> 7300,
   permissions |-> <<"r", "w", "-", "p">>,
   pathname |-> <<>>],
  [fields |-> 7, start_addr |-> 7400, end_addr |-> 7500,
   permissions |-> <<"-", "-", "-", "p">>,
   pathname |-> <<"[anon:", "scudo:", "secondary]">>],
  [fields |-> 7, start_addr |-> 7600, end_addr |-> 7700,
   permissions |-> <<"r", "-", "x", "p">>,
   pathname |-> <<"/system/lib64/", "libc.so">>],
  [fields |-> 7, start_addr |-> 7800, end_addr |-> 7850,
   permissions |-> <<"r", "w", "-", "p">>,
   pathname |-> <<"[anon:", "libc_malloc", "]", " (deleted)">>],
  [fields |-> 6, start_addr |-> 7900, end_addr |-> 7950,
   permissions |-> <<"r", "w", "-", "p">>,
   pathname |-> <<>>],
  [fields |-> 7, start_addr |-> 8000, end_addr |-> 8100,
   permissions |-> <<"r", "w", "-", "p">>,
   pathname |-> <<"[anon:", "scudo:", "primary]">>],
  [fields |-> 7, start_addr |-> 8200, end_addr |-> 8216,
   permissions |-> <<"r", "w", "-", "p">>,
   pathname |-> <<"[anon:", "GWP-ASan", " Guard Page]">>] >>

\* The chunk malloc_iterate reports as the k-th of the region at start.
Chunk(start, k) == <<start + 16 * k, 16 + k>>

(***************************************************************************)
(* Pure helpers, as the code computes them.                                *)
(***************************************************************************)
\* heap.c:175  remote_header[MAX_VALID_IDX] = remote_data_size / sizeof(uint64_t)
MaxValidIdx == PageSize \div WordBytes

\* heap.c:174-175  the header heap_iterate writes at provisioning
InitialHeader == [i \in 0..1 |-> IF i = MAX_VALID_IDX THEN MaxValidIdx ELSE HEADER_SIZE]

\* An anonymous page as mmap returns it: all zero.
ZeroPage == [i \in 0..(MaxValidIdx - 1) |-> 0]

PathUnit(p, i) == IF i <= Len(p) THEN p[i] ELSE NUL

\* memcmp(pathname, lit, n) == 0 over the first n pieces
MemEq(p, lit, n) == \A i \in 1..n : PathUnit(p, i) = PathUnit(lit, i)

\* proc.c:39  ret < 6: the line is not handed to the visitor
Parsed(entry) == entry.fields >= 6

\* A visitor that compares "[anon:libc_malloc]" without its terminator.
IsHeapRegionByPrefix(entry) ==
  /\ entry.permissions[1] = "r"
  /\ \/ MemEq(entry.pathname, <<"[anon:", "libc_malloc", "]">>, 3)
     \/ MemEq(entry.pathname, <<"[anon:", "scudo:">>, 2)
     \/ MemEq(entry.pathname, <<"[anon:", "GWP-ASan">>, 2)

\* heap.c:141-148  the regions the visitor passes to malloc_iterate
IsHeapRegion(entry) ==
  /\ entry.permissions[1] = "r"
  /\ \/ MemEq(entry.pathname, <<"[anon:", "libc_malloc", "]">>, 4)
     \/ MemEq(entry.pathname, <<"[anon:", "scudo:">>, 2)
     \/ MemEq(entry.pathname, <<"[anon:", "GWP-ASan">>, 2)

\* ptrace.c:29-40 (ARM64) and 51-65 (x86-64)
registers_setup_call(arc, regs, a, func, return_addr) ==
  IF arc = "arm64"
  THEN [regs EXCEPT !.a = a, !.ip = func, !.lr = return_addr]
  ELSE [regs EXCEPT !.a = a, !.ip = func, !.rax = 0]

\* ptrace.c:67-71  rsp -= sizeof(bytes)
registers_stack_reserve(regs) == [regs EXCEPT !.sp = @ - WordBytes]

\* ptrace.c:42-45 and 73-76
registers_retval(arc, regs) == IF arc = "arm64" THEN regs.a[1] ELSE regs.rax

\* A resume that leaves the instruction pointer where the trap left it.
TrapAdvanceNone(arc, regs) == regs

\* ptrace.c:233-237  step over the trap instruction
TrapAdvance(arc, regs) ==
  IF arc = "arm64" THEN [regs EXCEPT !.ip = @ + 4] ELSE [regs EXCEPT !.ip = @ + 1]

\* A completion test that looks at the signal only.
CallSucceededAnyAddr(stopsig, addr) == stopsig = "SIGSEGV"

\* ptrace.c:260
CallSucceeded(stopsig, addr) == (stopsig = "SIGSEGV") /\ (addr = 0)

\* A restore that writes back the call's working register set.
RestoreSetWorking(backup, regs) == regs

\* ptrace.c:252  the register set written back before detach
RestoreSet(backup, regs) == backup

\* remote.c:136-137 and 157-158
ResultChecked(ok, res) == ok /\ res # MinusOne

\* remote.c:175, 191, 213  the result of the function itself is not looked at
ResultIgnored(ok, res) == ok

\* A drain that starts one entry past the header.
DrainFirstIdxSkip == HEADER_SIZE + ENTRY_SIZE

\* heap.c:116  the first entry a drain reads
DrainFirstIdx == HEADER_SIZE

\* A drain that takes every header as sound.
HeaderCorruptNever(hdr) == FALSE

\* heap.c:113  remote_header[NEXT_FREE_IDX] > remote_header[MAX_VALID_IDX]
HeaderCorrupt(hdr) == hdr[NEXT_FREE_IDX] > hdr[MAX_VALID_IDX]

\* A drain that rewinds the cursor to the start of the page.
ResetHeaderToZero(hdr) == [hdr EXCEPT ![NEXT_FREE_IDX] = 0]

\* heap.c:132  the header a drain writes back
ResetHeader(hdr) == [hdr EXCEPT ![NEXT_FREE_IDX] = HEADER_SIZE]

\* A trampoline that traps only once the cursor is past max_entries.
BufferFullLate(cursor, max) == cursor > max

\* heap.c:75  the trampoline's loop condition
BufferFull(cursor, max) == cursor >= max

(***************************************************************************)
(* State.                                                                  *)
(***************************************************************************)
\* A heap_iterate whose result starts out true.
InitialResultTrue == TRUE

\* heap.c:165  bool result = false;
InitialResult == FALSE

VARIABLES
  arch,               \* the build: which #if branch of ptrace.c is compiled
  can_attach,         \* the kernel lets the observer trace the target
  \* find_remote_addr: the two maps files it reads and its frame
  local_maps, remote_maps, find,
  \* heap_iterate, maps_iterate and the visitor
  hpc, result, remote_data_addr, remote_code_addr, code_declared,
  total_items, line, vpc,
  \* ptrace_call_remote_function_with_trap_callback
  cpc, func_addr, args, has_cb, registers, backup_registers, status,
  si_addr, func_result, cret,
  \* malloc_iterate_process_remote_entries
  dpc, dcaller, idx, remote_header, dret,
  \* the target process
  tattached, trun, tevent, tsig, tsiaddr, tregs, tstackw, tpos, tmapped,
  data, tcode, tdisabled, twalk, tcur, ntraps,
  \* history
  faults, delivered, invoked, stored, anyFailed, walked, trapDrains, steps,
  visited, maps_ret,
  c_attached, detach_issued, restore_issued, snapshot, returned

env == <<arch, can_attach, local_maps, remote_maps, find>>
hvars == <<hpc, result, remote_data_addr, remote_code_addr, code_declared,
           total_items, line, vpc>>
ecall == <<func_addr, args, has_cb>>
elocal == <<registers, backup_registers, status, si_addr, func_result>>
eghost == <<c_attached, detach_issued, restore_issued, snapshot, returned>>
evars == <<cpc, cret, ecall, elocal, eghost>>
dvars == <<dpc, dcaller, idx, remote_header, dret>>
tstop == <<trun, tevent, tsig, tsiaddr>>
tmem == <<tmapped, data, tcode, tstackw, tdisabled>>
texec == <<tpos, twalk, tcur, ntraps>>
tvars == <<tattached, tstop, tregs, tmem, texec>>
mvars == <<visited, maps_ret>>
hist == <<delivered, invoked, stored, anyFailed, walked, trapDrains, steps,
          mvars>>
vars == <<env, hvars, evars, dvars, tvars, faults, hist>>

\* heap_iterate is about to start and the target runs untraced.
HeapIterateEntry ==
  /\ hpc = "mmap_data" /\ result = InitialResult
  /\ remote_data_addr = 0 /\ remote_code_addr = 0 /\ code_declared = FALSE
  /\ total_items = 0 /\ line = 0 /\ vpc = "idle"
  /\ cpc = "idle" /\ func_addr = 0 /\ args = ZeroRegs.a /\ has_cb = FALSE
  /\ registers = ZeroRegs /\ backup_registers = ZeroRegs
  /\ status = "none" /\ si_addr = 0 /\ func_result = 0 /\ cret = FALSE
  /\ dpc = "idle" /\ dcaller = "none" /\ idx = 0
  /\ remote_header = [i \in 0..1 |-> 0] /\ dret = FALSE
  /\ tattached = FALSE /\ trun = "run" /\ tevent = "none"
  /\ tsig = "none" /\ tsiaddr = 0
  /\ tregs = OrigRegs /\ tstackw = Layout.junk /\ tpos = "idle"
  /\ tmapped = {TargetMaps[i].start_addr : i \in 1..Len(TargetMaps)}
  /\ data = ZeroPage /\ tcode = FALSE /\ tdisabled = FALSE
  /\ twalk = 0 /\ tcur = <<0, 0>> /\ ntraps = "none"
  /\ faults = 0 /\ delivered = <<>> /\ invoked = <<>> /\ stored = <<>>
  /\ anyFailed = FALSE /\ walked = {} /\ trapDrains = 0 /\ steps = <<>>
  /\ visited = <<>> /\ maps_ret = "none"
  /\ c_attached = FALSE /\ detach_issued = FALSE /\ restore_issued = FALSE
  /\ snapshot = ZeroRegs /\ returned = FALSE

\* The frame of find_remote_addr while it is not running.
NoEntry == [fields |-> 0, start_addr |-> 0, end_addr |-> 0,
            permissions |-> "", pathname |-> ""]
FindIdle == [pc |-> "idle", addr |-> 0, line |-> 0, open_local |-> TRUE,
             open_remote |-> TRUE, by_addr |-> [found |-> FALSE, entry |-> NoEntry],
             equivalent |-> [found |-> FALSE, found_entry |-> NoEntry],
             remote_addr_in |-> 0, remote_addr |-> 0, ret |-> FALSE]

Init ==
  /\ arch \in Archs /\ can_attach \in BOOLEAN
  /\ local_maps = <<>> /\ remote_maps = <<>> /\ find = FindIdle
  /\ HeapIterateEntry

(***************************************************************************)
(* The target process.                                                     *)
(***************************************************************************)
\* A ptrace request other than ATTACH needs a tracee in a ptrace stop.
TracedStop == tattached /\ trun = "stop"

CanFail == faults < MaxFaults

\* Where the target goes on when it is resumed with instruction pointer ip.
\* On ARM64 a brk leaves pc at the brk itself; on x86-64 an int3 leaves rip
\* after it, on the nop (heap.c:26-28).
TrapIp(arc) == Layout.code + Layout.brk + (IF arc = "arm64" THEN 0 ELSE 1)
ResumePos(arc, ip) ==
  IF ip = OrigRegs.ip THEN "idle"
  ELSE IF ip = TrapIp(arc) + (IF arc = "arm64" THEN 4 ELSE 1) THEN "check"
  ELSE IF ip = TrapIp(arc) THEN (IF arc = "arm64" THEN "brk" ELSE "check")
  ELSE "entry"

\* The target stops and its tracer is told (signal-delivery-stop).
Stop(sig, addr) ==
  /\ trun' = "stop" /\ tevent' = "stopped" /\ tsig' = sig /\ tsiaddr' = addr

\* The return address of the injected call: x30 on ARM64, the word at the
\* stack pointer on x86-64.
ReturnAddr ==
  IF arch = "arm64" THEN tregs.lr
  ELSE IF tregs.sp = OrigRegs.sp - WordBytes THEN tstackw ELSE Layout.junk

SetRetval(regs, v) ==
  IF arch = "arm64" THEN [regs EXCEPT !.a[1] = v] ELSE [regs EXCEPT !.rax = v]

\* The injected function returns v: it jumps to its return address, and
\* the instruction fetch there faults.
TargetReturn(v) ==
  /\ tregs' = [SetRetval(tregs, v) EXCEPT
                 !.ip = ReturnAddr,
                 !.sp = IF arch = "arm64" THEN @ ELSE @ + WordBytes]
  /\ Stop("SIGSEGV", ReturnAddr)
  /\ tpos' = "returned"
  /\ returned' = TRUE

\* Where the target is while it executes the trampoline (heap.c:73-80).
TrampolinePos == {"check", "brk", "store1", "store2"}

InCall(name) == trun = "run" /\ tpos = "entry" /\ tregs.ip = LibcAddr[name]

\* mmap(0, len, prot, flags, ...) in the target
T_mmap ==
  /\ InCall("mmap")
  /\ \/ /\ LET addr == IF Layout.data \in tmapped THEN Layout.code ELSE Layout.data
           IN /\ tmapped' = tmapped \cup {addr}
              /\ data' = IF addr = Layout.data THEN ZeroPage ELSE data
              /\ tcode' = IF addr = Layout.code THEN FALSE ELSE tcode
              /\ TargetReturn(addr)
        /\ faults' = faults
     \/ /\ CanFail /\ faults' = faults + 1
        /\ TargetReturn(MinusOne)
        /\ UNCHANGED <<tmapped, data, tcode>>
  /\ UNCHANGED <<env, hvars, cpc, cret, ecall, elocal, c_attached, detach_issued,
                 restore_issued, snapshot, dvars, tattached, tstackw, tdisabled,
                 twalk, tcur, ntraps, hist>>

\* munmap(addr, len) in the target; a length of 0 is refused (EINVAL)
T_munmap ==
  /\ InCall("munmap")
  /\ \/ /\ tregs.a[2] # 0
        /\ tmapped' = tmapped \ {tregs.a[1]}
        /\ TargetReturn(0)
        /\ faults' = faults
     \/ /\ tregs.a[2] = 0 \/ CanFail
        /\ faults' = IF tregs.a[2] = 0 THEN faults ELSE faults + 1
        /\ TargetReturn(MinusOne)
        /\ UNCHANGED tmapped
  /\ UNCHANGED <<env, hvars, cpc, cret, ecall, elocal, c_attached, detach_issued,
                 restore_issued, snapshot, dvars, tattached, data, tcode, tstackw,
                 tdisabled, twalk, tcur, ntraps, hist>>

T_malloc_disable ==
  /\ InCall("malloc_disable")
  /\ tdisabled' = TRUE
  /\ TargetReturn(0)
  /\ UNCHANGED <<env, hvars, cpc, cret, ecall, elocal, c_attached, detach_issued,
                 restore_issued, snapshot, dvars, tattached, tmapped, data, tcode,
                 tstackw, twalk, tcur, ntraps, faults, hist>>

T_malloc_enable ==
  /\ InCall("malloc_enable")
  /\ tdisabled' = FALSE
  /\ TargetReturn(0)
  /\ UNCHANGED <<env, hvars, cpc, cret, ecall, elocal, c_attached, detach_issued,
                 restore_issued, snapshot, dvars, tattached, tmapped, data, tcode,
                 tstackw, twalk, tcur, ntraps, faults, hist>>

\* malloc_iterate(base, size, callback, arg) starts walking the region
T_malloc_iterate ==
  /\ InCall("malloc_iterate")
  /\ tpos' = "walk" /\ twalk' = 0
  /\ UNCHANGED <<env, hvars, evars, dvars, tattached, tstop, tregs, tmem,
                 tcur, ntraps, faults, hist>>

\* malloc_iterate calls callback(base, size, arg) for its next chunk, which
\* lies in the range [base, base + size) it was asked to walk
T_WalkInvoke ==
  /\ trun = "run" /\ tpos = "walk" /\ twalk < MaxChunks
  /\ Chunk(tregs.a[1], twalk + 1)[1] < tregs.a[1] + tregs.a[2]
  /\ tregs.a[3] = Layout.code /\ Layout.code \in tmapped /\ tcode
  /\ tcur' = Chunk(tregs.a[1], twalk + 1)
  /\ twalk' = twalk + 1
  /\ invoked' = Append(invoked, Chunk(tregs.a[1], twalk + 1))
  /\ tpos' = "check" /\ ntraps' = "none"
  /\ UNCHANGED <<env, hvars, evars, dvars, tattached, tstop, tregs, tmem,
                 faults, delivered, stored, anyFailed, walked, trapDrains, steps, mvars>>

\* malloc_iterate has no more chunks and returns
T_WalkReturn ==
  /\ trun = "run" /\ tpos = "walk"
  /\ \/ TargetReturn(0) /\ faults' = faults
     \/ CanFail /\ faults' = faults + 1 /\ TargetReturn(MinusOne)
  /\ UNCHANGED <<env, hvars, cpc, cret, ecall, elocal, c_attached, detach_issued,
                 restore_issued, snapshot, dvars, tattached, tmem, twalk, tcur,
                 ntraps, hist>>

\* heap.c:75  while (data[NEXT_FREE_IDX] >= data[MAX_VALID_IDX])
T_Check ==
  /\ trun = "run" /\ tpos = "check"
  /\ tpos' = IF BufferFull(data[NEXT_FREE_IDX], data[MAX_VALID_IDX])
             THEN "brk" ELSE "store1"
  /\ UNCHANGED <<env, hvars, evars, dvars, tattached, tstop, tregs, tmem,
                 twalk, tcur, ntraps, faults, hist>>

\* heap.c:76  DEBUG_BREAK()
T_Brk ==
  /\ trun = "run" /\ tpos = "brk"
  /\ tregs' = [tregs EXCEPT !.ip = TrapIp(arch)]
  /\ Stop("SIGTRAP", 0)
  /\ tpos' = "trapped"
  /\ ntraps' = IF ntraps = "none" THEN "once" ELSE "again"
  /\ UNCHANGED <<env, hvars, evars, dvars, tattached, tmem, twalk, tcur,
                 faults, hist>>

\* data[c] = v; data[NEXT_FREE_IDX] = c + 1.  A store past the page's last
\* word lands in whatever follows the page.
StoreWord(v) ==
  LET c == data[NEXT_FREE_IDX]
      d1 == IF c \in DOMAIN data THEN [data EXCEPT ![c] = v] ELSE data
  IN [d1 EXCEPT ![NEXT_FREE_IDX] = c + 1]

\* heap.c:78  data[data[NEXT_FREE_IDX]++] = base
T_Store1 ==
  /\ trun = "run" /\ tpos = "store1"
  /\ data' = StoreWord(tcur[1])
  /\ tpos' = "store2"
  /\ UNCHANGED <<env, hvars, evars, dvars, tattached, tstop, tregs, tmapped,
                 tcode, tstackw, tdisabled, twalk, tcur, ntraps, faults, hist>>

\* heap.c:79  data[data[NEXT_FREE_IDX]++] = size, and the callback returns
T_Store2 ==
  /\ trun = "run" /\ tpos = "store2"
  /\ data' = StoreWord(tcur[2])
  /\ stored' = Append(stored, tcur)
  /\ tpos' = "walk"
  /\ UNCHANGED <<env, hvars, evars, dvars, tattached, tstop, tregs, tmapped,
                 tcode, tstackw, tdisabled, twalk, tcur, ntraps, faults, delivered,
                 invoked, anyFailed, walked, trapDrains, steps, mvars>>

\* The injected function does not return: it faults on a data access (at a
\* null or a non-null address) or raises another signal, which may be a
\* SIGTRAP that is not the trampoline's.
FaultEvents ==
  {<<"SIGSEGV", 0>>, <<"SIGSEGV", Layout.fault>>, <<"SIGABRT", 0>>,
   <<"SIGTRAP", 0>>}

T_Fault ==
  /\ trun = "run" /\ tpos \in {"entry", "walk"}
  /\ CanFail /\ faults' = faults + 1
  /\ \E ev \in FaultEvents : Stop(ev[1], ev[2])
  /\ tpos' = "faulted"
  /\ UNCHANGED <<env, hvars, evars, dvars, tattached, tregs, tmem, twalk,
                 tcur, ntraps, hist>>

\* The target exits or is killed inside the call.  Its tracer's next
\* waitpid reports the exit ("exited"), or fails with ECHILD when the
\* target was already reaped ("gone").
T_Exit ==
  /\ trun = "run" /\ tpos \in ({"entry", "walk"} \cup TrampolinePos)
  /\ CanFail /\ faults' = faults + 1
  /\ trun' = "dead" /\ tevent' \in {"exited", "gone"}
  /\ tattached' = FALSE /\ tmapped' = {} /\ tpos' = "dead"
  /\ UNCHANGED <<env, hvars, evars, dvars, tsig, tsiaddr, tregs, data, tcode,
                 tstackw, tdisabled, twalk, tcur, ntraps, hist>>

\* A header no run of the trampoline alone produces: the cursor is past
\* max_entries.
CursorPastMax(hdr) == hdr[NEXT_FREE_IDX] > hdr[MAX_VALID_IDX]

\* The header words a stray store of the target can leave behind: a
\* cursor past max_entries, or a max_entries below the cursor.
Scribbles(d) ==
  {[d EXCEPT ![NEXT_FREE_IDX] = d[MAX_VALID_IDX] + 1],
   [d EXCEPT ![MAX_VALID_IDX] = 0]}

\* The data page lies in the target's address space, and PTRACE_ATTACH
\* stops one thread only: another thread of the target overwrites the
\* header (the case heap.c:113-114 guards against).
T_Scribble ==
  /\ hpc \in {"maps_open", "maps_loop"} /\ trun # "dead"
  /\ Layout.data \in tmapped /\ ~CursorPastMax(data)
  /\ CanFail /\ faults' = faults + 1
  /\ data' \in Scribbles(data)
  /\ UNCHANGED <<env, hvars, evars, dvars, tattached, tstop, tregs, tmapped,
                 tcode, tstackw, tdisabled, texec, hist>>

(***************************************************************************)
(* ptrace.c: ptrace_call_remote_function_with_trap_callback.               *)
(***************************************************************************)
\* The call begins: its parameters are set and its locals are fresh.
BeginCall(func, a, cb) ==
  /\ cpc' = "attach" /\ cret' = FALSE
  /\ func_addr' = func /\ args' = a /\ has_cb' = cb
  /\ registers' = ZeroRegs /\ backup_registers' = ZeroRegs
  /\ status' = "none" /\ si_addr' = 0 /\ func_result' = 0
  /\ c_attached' = FALSE /\ detach_issued' = FALSE /\ restore_issued' = FALSE
  /\ snapshot' = ZeroRegs /\ returned' = FALSE

\* return v;
CallRet(v) == cpc' = "ret" /\ cret' = v

\* A ptrace request fails: the tracee is not in a ptrace stop, or the
\* environment makes it fail.
PtraceFails ==
  /\ ~TracedStop \/ CanFail
  /\ faults' = IF TracedStop THEN faults + 1 ELSE faults

\* ptrace.c:83-86  ptrace(PTRACE_ATTACH)
ptrace_attach_request ==
  /\ cpc = "attach"
  /\ \/ /\ can_attach /\ ~tattached /\ trun = "run"
        /\ tattached' = TRUE /\ Stop("SIGSTOP", 0)
        /\ cpc' = "attach_wait" /\ faults' = faults
        /\ UNCHANGED cret
     \/ /\ ~can_attach \/ tattached \/ trun # "run" \/ CanFail
        /\ faults' = IF ~can_attach \/ tattached \/ trun # "run"
                     THEN faults ELSE faults + 1
        /\ CallRet(FALSE)
        /\ UNCHANGED <<tattached, tstop>>
  /\ UNCHANGED <<env, hvars, ecall, elocal, eghost, dvars, tregs, tmem, texec,
                 hist>>

\* ptrace.c:90-105  the waitpid loop of ptrace_attach
ptrace_attach_wait ==
  /\ cpc = "attach_wait"
  /\ \/ /\ tevent = "stopped"
        /\ tevent' = "none" /\ c_attached' = TRUE /\ cpc' = "getregs"
        /\ UNCHANGED <<cret, faults, tattached, trun, tmapped, tpos>>
     \/ /\ CanFail /\ faults' = faults + 1      \* EINTR: wait again
        /\ UNCHANGED <<cpc, cret, c_attached, tattached, trun, tevent, tmapped,
                       tpos>>
     \/ /\ CanFail /\ faults' = faults + 1      \* the target is gone
        /\ trun' = "dead" /\ tevent' = "none" /\ tattached' = FALSE
        /\ tmapped' = {} /\ tpos' = "dead"
        /\ CallRet(FALSE)
        /\ UNCHANGED c_attached
  /\ UNCHANGED <<env, hvars, ecall, elocal, detach_issued, restore_issued,
                 snapshot, returned, dvars, tsig, tsiaddr, tregs, data, tcode, tstackw,
                 tdisabled, twalk, tcur, ntraps, hist>>

\* ptrace.c:178-192  getregs, the backup copy, setup_call, stack_reserve
ptrace_getregs_setup ==
  /\ cpc = "getregs"
  /\ \/ /\ TracedStop /\ faults' = faults
        /\ LET r1 == registers_setup_call(arch, tregs, args, func_addr, 0)
           IN registers' = IF arch = "arm64" THEN r1 ELSE registers_stack_reserve(r1)
        /\ backup_registers' = tregs /\ snapshot' = tregs
        /\ cpc' = IF arch = "arm64" THEN "setregs" ELSE "pokedata"
        /\ UNCHANGED cret
     \/ /\ PtraceFails /\ CallRet(FALSE)
        /\ UNCHANGED <<registers, backup_registers, snapshot>>
  /\ UNCHANGED <<env, hvars, ecall, status, si_addr, func_result, c_attached,
                 detach_issued, restore_issued, returned, dvars, tvars, hist>>

\* ptrace.c:193-196  x86-64: the return address 0 is poked onto the stack
ptrace_pokedata ==
  /\ cpc = "pokedata"
  /\ \/ /\ TracedStop /\ faults' = faults
        /\ tstackw' = IF registers.sp = OrigRegs.sp - WordBytes THEN 0 ELSE tstackw
        /\ cpc' = "setregs"
        /\ UNCHANGED cret
     \/ /\ PtraceFails /\ CallRet(FALSE)
        /\ UNCHANGED tstackw
  /\ UNCHANGED <<env, hvars, ecall, elocal, eghost, dvars, tattached, tstop,
                 tregs, tmapped, data, tcode, tdisabled, texec, hist>>

\* ptrace.c:201  ptrace_setregs(pid, &registers)
ptrace_setregs_call ==
  /\ cpc = "setregs"
  /\ \/ /\ TracedStop /\ faults' = faults
        /\ tregs' = registers
        /\ cpc' = "cont"
        /\ UNCHANGED cret
     \/ /\ PtraceFails /\ CallRet(FALSE)
        /\ UNCHANGED tregs
  /\ UNCHANGED <<env, hvars, ecall, elocal, eghost, dvars, tattached, tstop,
                 tmem, texec, hist>>

\* PTRACE_CONT resumes the target where its registers point.
Resume ==
  /\ trun' = "run" /\ tevent' = "none"
  /\ tpos' = ResumePos(arch, tregs.ip)
  /\ UNCHANGED <<tsig, tsiaddr>>

\* ptrace.c:202  ptrace_continue(pid)
ptrace_continue_call ==
  /\ cpc = "cont"
  /\ \/ /\ TracedStop /\ faults' = faults
        /\ Resume
        /\ cpc' = "wait"
        /\ UNCHANGED cret
     \/ /\ PtraceFails /\ CallRet(FALSE)
        /\ UNCHANGED <<tstop, tpos>>
  /\ UNCHANGED <<env, hvars, ecall, elocal, eghost, dvars, tattached, tregs,
                 tmem, twalk, tcur, ntraps, hist>>

\* A wait loop that ends only when no trap callback was supplied.
LoopEndsWithoutCallback(cb, sig) == ~cb

\* ptrace.c:222  trap_callback == NULL || WSTOPSIG(status) != SIGTRAP
LoopEnds(cb, sig) == ~cb \/ sig # "SIGTRAP"

\* A wait loop that does not look for the exit of the target.
WaitExitedMissed(ev) == FALSE

\* ptrace.c:216  WIFEXITED(status) || WIFSIGNALED(status)
WaitExited(ev) == ev = "exited"

\* ptrace.c:206-227  one waitpid of the call loop, up to the trap callback
ptrace_wait ==
  /\ cpc = "wait"
  /\ \/ /\ tevent = "stopped"
        /\ tevent' = "none" /\ status' = tsig
        /\ IF LoopEnds(has_cb, tsig)
           THEN cpc' = "getsiginfo" /\ UNCHANGED <<dpc, dcaller>>
           ELSE cpc' = "trapcb" /\ dpc' = "header" /\ dcaller' = "trap"
        /\ UNCHANGED <<cret, faults>>
     \/ /\ tevent = "exited"                     \* the status of a dead target
        /\ IF WaitExited(tevent)
           THEN tevent' = "none" /\ CallRet(FALSE)
           ELSE tevent' = "reaped" /\ UNCHANGED <<cpc, cret>>  \* wait again
        /\ UNCHANGED <<status, dpc, dcaller, faults>>
     \/ /\ tevent \in {"gone", "reaped"}         \* waitpid fails, not EINTR
        /\ tevent' = "none"
        /\ CallRet(FALSE)
        /\ UNCHANGED <<status, dpc, dcaller, faults>>
     \/ /\ CanFail /\ faults' = faults + 1       \* EINTR: wait again
        /\ UNCHANGED <<cpc, cret, tevent, status, dpc, dcaller>>
  /\ UNCHANGED <<env, hvars, ecall, registers, backup_registers, si_addr,
                 func_result, eghost, idx, remote_header, dret, tattached,
                 trun, tsig, tsiaddr, tregs, tmem, texec, hist>>

\* ptrace.c:226-227  the trap callback has returned
ptrace_trap_callback_ret ==
  /\ cpc = "trapcb" /\ dpc = "ret"
  /\ dpc' = "idle"
  /\ cpc' = IF dret THEN "trap_getregs" ELSE "getsiginfo"
  /\ UNCHANGED <<env, hvars, cret, ecall, elocal, eghost, dcaller, idx,
                 remote_header, dret, tvars, faults, hist>>

\* ptrace.c:230-237  getregs and the step over the trap instruction
ptrace_trap_getregs ==
  /\ cpc = "trap_getregs"
  /\ \/ /\ TracedStop /\ faults' = faults
        /\ registers' = TrapAdvance(arch, tregs)
        /\ cpc' = "trap_setregs"
     \/ /\ PtraceFails /\ cpc' = "getsiginfo"
        /\ UNCHANGED registers
  /\ UNCHANGED <<env, hvars, cret, ecall, backup_registers, status, si_addr,
                 func_result, eghost, dvars, tvars, hist>>

\* ptrace.c:239-240
ptrace_trap_setregs ==
  /\ cpc = "trap_setregs"
  /\ \/ /\ TracedStop /\ faults' = faults
        /\ tregs' = registers
        /\ cpc' = "trap_cont"
     \/ /\ PtraceFails /\ cpc' = "getsiginfo"
        /\ UNCHANGED tregs
  /\ UNCHANGED <<env, hvars, cret, ecall, elocal, eghost, dvars, tattached,
                 tstop, tmem, texec, hist>>

\* ptrace.c:242-243
ptrace_trap_continue ==
  /\ cpc = "trap_cont"
  /\ \/ /\ TracedStop /\ faults' = faults
        /\ Resume
        /\ cpc' = "wait"
     \/ /\ PtraceFails /\ cpc' = "getsiginfo"
        /\ UNCHANGED <<tstop, tpos>>
  /\ UNCHANGED <<env, hvars, cret, ecall, elocal, eghost, dvars, tattached,
                 tregs, tmem, twalk, tcur, ntraps, hist>>

\* ptrace.c:247-249
ptrace_getsiginfo_call ==
  /\ cpc = "getsiginfo"
  /\ \/ /\ TracedStop /\ faults' = faults
        /\ si_addr' = tsiaddr
        /\ cpc' = "final_getregs"
        /\ UNCHANGED cret
     \/ /\ PtraceFails /\ CallRet(FALSE)
        /\ UNCHANGED si_addr
  /\ UNCHANGED <<env, hvars, ecall, registers, backup_registers, status,
                 func_result, eghost, dvars, tvars, hist>>

\* ptrace.c:251  ptrace_getregs(pid, &registers)
ptrace_final_getregs ==
  /\ cpc = "final_getregs"
  /\ \/ /\ TracedStop /\ faults' = faults
        /\ registers' = tregs
        /\ cpc' = "restore"
        /\ UNCHANGED cret
     \/ /\ PtraceFails /\ CallRet(FALSE)
        /\ UNCHANGED registers
  /\ UNCHANGED <<env, hvars, ecall, backup_registers, status, si_addr,
                 func_result, eghost, dvars, tvars, hist>>

\* ptrace.c:252  ptrace_setregs(pid, &backup_registers)
ptrace_restore ==
  /\ cpc = "restore"
  /\ restore_issued' = TRUE
  /\ \/ /\ TracedStop /\ faults' = faults
        /\ tregs' = RestoreSet(backup_registers, registers)
        /\ cpc' = "detach"
        /\ UNCHANGED cret
     \/ /\ PtraceFails /\ CallRet(FALSE)
        /\ UNCHANGED tregs
  /\ UNCHANGED <<env, hvars, ecall, elocal, c_attached, detach_issued,
                 snapshot, returned, dvars, tattached, tstop, tmem, texec, hist>>

\* ptrace.c:253-260  detach, the result and the completion check
ptrace_detach_return ==
  /\ cpc = "detach"
  /\ detach_issued' = TRUE
  /\ \/ /\ TracedStop /\ faults' = faults
        /\ tattached' = FALSE
        /\ Resume
        /\ func_result' = registers_retval(arch, registers)
        /\ CallRet(CallSucceeded(status, si_addr))
     \/ /\ PtraceFails /\ CallRet(FALSE)
        /\ UNCHANGED <<tattached, tstop, tpos, func_result>>
  /\ UNCHANGED <<env, hvars, ecall, registers, backup_registers, status,
                 si_addr, c_attached, restore_issued, snapshot, returned, dvars,
                 tregs,
                 tmem, twalk, tcur, ntraps, hist>>

(***************************************************************************)
(* remote.c: memory transfers and symbol resolution.                       *)
(***************************************************************************)
\* process_vm_readv / process_vm_writev reach a page that is mapped.
MemOk(addr) == addr \in tmapped

\* remote.c:232-240 and 255-263  the transfer fails or is short
MemFails(addr) ==
  /\ ~MemOk(addr) \/ CanFail
  /\ faults' = IF MemOk(addr) THEN faults + 1 ELSE faults

\* remote.c:105-121  remote_dlsym fails (the target's maps cannot be read,
\* no equivalent region, dlopen or dlsym fails)
DlsymFails ==
  /\ trun = "dead" \/ CanFail
  /\ faults' = IF trun = "dead" THEN faults ELSE faults + 1

DlsymOk == trun # "dead" /\ faults' = faults

(***************************************************************************)
(* remote.c: find_remote_addr, the address translation of remote_dlsym.    *)
(***************************************************************************)
Region(n, s, e, perms, path) ==
  [fields |-> n, start_addr |-> s, end_addr |-> e, permissions |-> perms,
   pathname |-> path]

\* /proc/self/maps of the observer: sorted, the regions do not overlap.
\* The second file begins with a line sscanf reads five fields of.
LocalMapsFiles ==
  { << Region(7, 100, 200, "r--p", "/libc.so"),
       Region(7, 200, 300, "r-xp", "/libc.so"),
       Region(7, 300, 350, "rw-p", "/libc.so"),
       Region(6, 400, 500, "rw-p", "") >>,
    << Region(5, 100, 200, "r--p", ""),
       Region(7, 200, 300, "r-xp", "/libc.so") >> }

\* /proc/<pid>/maps of the target: the library at another base; with a
\* text segment of another length and a second library image; without
\* the library; empty.
RemoteMapsFiles ==
  { << Region(7, 1000, 1100, "r--p", "/libc.so"),
       Region(7, 1100, 1200, "r-xp", "/libc.so"),
       Region(7, 1200, 1250, "rw-p", "/libc.so"),
       Region(6, 1400, 1500, "rw-p", "") >>,
    << Region(7, 1100, 1180, "r-xp", "/libc.so"),
       Region(5, 1200, 1300, "r-xp", "/libc.so"),
       Region(7, 2000, 2100, "r-xp", "/libc.so"),
       Region(7, 3000, 3100, "r-xp", "/libc.so") >>,
    << Region(7, 1000, 1100, "r-xp", "/libm.so"),
       Region(7, 1100, 1200, "r-xp", "/libc.so.1") >>,
    << >> }

\* The local addresses dlsym may have returned.
LocalAddrs == {50, 100, 150, 200, 260, 299, 300, 349, 350, 450}

\* What *remote_addr holds when remote_dlsym is called (remote.c:124).
RemoteAddrIns == {0, 7}

\* remote.c:34-35
ContainsAddr(addr, entry) == addr >= entry.start_addr /\ addr < entry.end_addr

\* A comparison of regions that leaves out the permission string.
EquivalentByPathAndLength(match, entry) ==
  /\ match.end_addr - match.start_addr = entry.end_addr - entry.start_addr
  /\ entry.pathname = match.pathname

\* remote.c:51-56  same length, strcmp of permissions and of pathname is 0
Equivalent(match, entry) ==
  /\ match.end_addr - match.start_addr = entry.end_addr - entry.start_addr
  /\ entry.permissions = match.permissions
  /\ entry.pathname = match.pathname

\* remote.c:100-101
Translate(local_addr, local_entry, remote_entry) ==
  remote_entry.start_addr + (local_addr - local_entry.start_addr)

\* remote_dlsym has resolved the symbol locally and calls find_remote_addr.
FindInit ==
  /\ arch = "arm64" /\ can_attach = TRUE
  /\ local_maps \in LocalMapsFiles /\ remote_maps \in RemoteMapsFiles
  /\ \E a \in LocalAddrs, r \in RemoteAddrIns, okl, okr \in BOOLEAN :
       find = [FindIdle EXCEPT !.pc = "local", !.addr = a, !.line = 1,
                               !.open_local = okl, !.open_remote = okr,
                               !.remote_addr_in = r, !.remote_addr = r]
  /\ HeapIterateEntry

FindRet(v) == [find EXCEPT !.pc = "done", !.ret = v]

FindRest == <<local_maps, remote_maps, arch, can_attach, hvars, evars, dvars,
              tvars, faults, hist>>

\* remote.c:66-80 with 32-41 and proc.c:25-44  one line of the observer's
\* own maps under maps_iterate_find_by_addr
find_by_addr ==
  /\ find.pc = "local"
  /\ find' =
       IF ~find.open_local THEN FindRet(FALSE)
       ELSE IF find.line > Len(local_maps) THEN FindRet(FALSE)
       ELSE IF ~Parsed(local_maps[find.line])
            \/ ~ContainsAddr(find.addr, local_maps[find.line])
       THEN [find EXCEPT !.line = @ + 1]
       ELSE [find EXCEPT !.by_addr = [found |-> TRUE,
                                      entry |-> local_maps[find.line]],
                         !.pc = "remote", !.line = 1]
  /\ UNCHANGED FindRest

\* remote.c:83-96 with 49-62 and proc.c:25-44  one line of the target's
\* maps under maps_iterate_find_equivalent
find_equivalent ==
  /\ find.pc = "remote"
  /\ find' =
       IF ~find.open_remote THEN FindRet(FALSE)
       ELSE IF find.line > Len(remote_maps) THEN FindRet(FALSE)
       ELSE IF ~Parsed(remote_maps[find.line])
            \/ ~Equivalent(find.by_addr.entry, remote_maps[find.line])
       THEN [find EXCEPT !.line = @ + 1]
       ELSE [find EXCEPT !.equivalent = [found |-> TRUE,
                                         found_entry |-> remote_maps[find.line]],
                         !.pc = "translate"]
  /\ UNCHANGED FindRest

\* remote.c:98-102  the offset is applied and true is returned
find_translate ==
  /\ find.pc = "translate"
  /\ find' = [FindRet(TRUE) EXCEPT
                !.remote_addr = Translate(find.addr, find.by_addr.entry,
                                          find.equivalent.found_entry)]
  /\ UNCHANGED FindRest

FindNext == find_by_addr \/ find_equivalent \/ find_translate

FindSpec == FindInit /\ [][FindNext]_vars

(***************************************************************************)
(* heap.c: malloc_iterate_process_remote_entries (the drain).              *)
(***************************************************************************)
Word(i) == IF i \in DOMAIN data THEN data[i] ELSE 0

\* No run has more trap drains than chunks: at most one per chunk of each
\* line of the maps.
MaxTrapDrains == MaxChunks * Len(TargetMaps)

\* return v; from the drain
DrainRet(v) == dpc' = "ret" /\ dret' = v /\ anyFailed' = (anyFailed \/ ~v)

\* heap.c:109-116  read the header, check the cursor, start the loop
drain_read_header ==
  /\ dpc = "header"
  /\ \/ /\ MemOk(remote_data_addr) /\ faults' = faults
        /\ LET hdr == [i \in 0..1 |-> Word(i)]
           IN /\ remote_header' = hdr
              /\ IF HeaderCorrupt(hdr)
                 THEN DrainRet(FALSE) /\ UNCHANGED idx
                 ELSE /\ dpc' = "entries" /\ idx' = DrainFirstIdx
                      /\ UNCHANGED <<dret, anyFailed>>
     \/ /\ MemFails(remote_data_addr) /\ DrainRet(FALSE)
        /\ UNCHANGED <<remote_header, idx>>
  /\ UNCHANGED <<env, hvars, evars, dcaller, tvars, delivered, invoked,
                 stored, walked, trapDrains, steps, mvars>>

\* heap.c:116-125  one turn of the loop: read an entry, call the callback
drain_process_entry ==
  /\ dpc = "entries" /\ idx < remote_header[NEXT_FREE_IDX]
  /\ \/ /\ MemOk(remote_data_addr) /\ faults' = faults
        /\ delivered' = Append(delivered, <<Word(idx), Word(idx + 1)>>)
        /\ idx' = idx + ENTRY_SIZE
        /\ UNCHANGED <<dpc, dret, anyFailed>>
     \/ /\ MemFails(remote_data_addr) /\ DrainRet(FALSE)
        /\ UNCHANGED <<delivered, idx>>
  /\ UNCHANGED <<env, hvars, evars, dcaller, remote_header, tvars, invoked,
                 stored, walked, trapDrains, steps, mvars>>

\* heap.c:127-136  count the items, reset the cursor, write the header back
drain_write_header ==
  /\ dpc = "entries" /\ idx >= remote_header[NEXT_FREE_IDX]
  /\ total_items' = total_items +
        (IF remote_header[NEXT_FREE_IDX] > HEADER_SIZE
         THEN (remote_header[NEXT_FREE_IDX] - HEADER_SIZE) \div ENTRY_SIZE
         ELSE 0)
  /\ remote_header' = ResetHeader(remote_header)
  /\ \/ /\ MemOk(remote_data_addr) /\ faults' = faults
        /\ data' = [i \in DOMAIN data |->
                      IF i \in 0..1 THEN ResetHeader(remote_header)[i] ELSE data[i]]
        /\ trapDrains' = IF dcaller = "trap" /\ trapDrains < MaxTrapDrains
                         THEN trapDrains + 1 ELSE trapDrains
        /\ DrainRet(TRUE)
     \/ /\ MemFails(remote_data_addr) /\ DrainRet(FALSE)
        /\ UNCHANGED <<data, trapDrains>>
  /\ UNCHANGED <<env, hpc, result, remote_data_addr, remote_code_addr,
                 code_declared, line, vpc, evars, dcaller, idx, tattached,
                 tstop, tregs, tmapped, tcode, tstackw, tdisabled, texec,
                 delivered, invoked, stored, walked, steps, mvars>>

(***************************************************************************)
(* heap.c: heap_iterate, and proc.c: maps_iterate with its visitor.        *)
(***************************************************************************)
\* heap.c:203  .failed = false, and nothing assigns it afterwards
context_failed == FALSE

\* heap.c:181-184  the code region is one page (the trampoline is shorter)
remote_code_size == PageSize

\* The values an object holds when the goto at heap.c:171 or 179 jumped
\* over its initialisation (heap.c:183-185): whatever the stack held.
Indeterminate == {0, TargetMaps[1].start_addr}

\* The same for remote_code_size, which the same gotos jump over.
IndeterminateSizes == {0, PageSize}

\* The step of heap_iterate that begins is appended to the history.
Step(name) == steps' = Append(steps, name) /\ UNCHANGED mvars

\* A maps_iterate that reports an early stop of its visitor as a failure.
MapsIterateResultStopFails(opened, stopped) ==
  IF opened /\ ~stopped THEN "true" ELSE "false"

\* proc.c:26-29 and 49  false when the file was not opened, true after the
\* loop, however it ended
MapsIterateResult(opened, stopped) == IF opened THEN "true" ELSE "false"

\* A heap_iterate that skips malloc_enable when maps_iterate reports failure.
AfterMapsIterateChecked(ok) == IF ok THEN "enable" ELSE "munmap_data"

\* heap.c:208-211  maps_iterate's result ok is dropped: remote_malloc_enable
\* is next whatever it was
AfterMapsIterate(ok) == "enable"

\* goto exit after a failed step
GotoExit == hpc' = "munmap_data" /\ anyFailed' = TRUE

\* heap.c:169  remote_mmap: remote_dlsym, then the call begins
heap_mmap_data ==
  /\ hpc = "mmap_data"
  /\ Step("mmap_data")
  /\ \/ /\ DlsymOk
        /\ BeginCall(LibcAddr.mmap, <<0, PageSize, 3, 34, 0, 0>>, FALSE)
        /\ hpc' = "mmap_data_ret" /\ UNCHANGED anyFailed
     \/ /\ DlsymFails /\ GotoExit /\ UNCHANGED evars
  /\ UNCHANGED <<env, result, remote_data_addr, remote_code_addr,
                 code_declared, total_items, line, vpc, dvars, tvars,
                 delivered, invoked, stored, walked, trapDrains>>

\* heap.c:169-171 with remote.c:136-143
heap_mmap_data_ret ==
  /\ hpc = "mmap_data_ret" /\ cpc = "ret"
  /\ cpc' = "idle"
  /\ IF ResultChecked(cret, func_result)
     THEN /\ remote_data_addr' = func_result /\ hpc' = "write_header"
          /\ UNCHANGED anyFailed
     ELSE GotoExit /\ UNCHANGED remote_data_addr
  /\ UNCHANGED <<env, result, remote_code_addr, code_declared, total_items,
                 line, vpc, cret, ecall, elocal, eghost, dvars, tvars, faults,
                 delivered, invoked, stored, walked, trapDrains, steps, mvars>>

\* heap.c:173-185  the initial header; then the code region's locals
heap_write_header ==
  /\ hpc = "write_header"
  /\ Step("write_header")
  /\ \/ /\ MemOk(remote_data_addr) /\ faults' = faults
        /\ data' = [i \in DOMAIN data |->
                      IF i \in 0..1 THEN InitialHeader[i] ELSE data[i]]
        /\ code_declared' = TRUE /\ remote_code_addr' = 0
        /\ hpc' = "mmap_code" /\ UNCHANGED anyFailed
     \/ /\ MemFails(remote_data_addr) /\ GotoExit
        /\ UNCHANGED <<data, code_declared, remote_code_addr>>
  /\ UNCHANGED <<env, result, remote_data_addr, total_items, line, vpc,
                 evars, dvars, tattached, tstop, tregs, tmapped, tcode,
                 tstackw, tdisabled, texec, delivered, invoked, stored,
                 walked, trapDrains>>

\* heap.c:187  remote_mmap of the code region
heap_mmap_code ==
  /\ hpc = "mmap_code"
  /\ Step("mmap_code")
  /\ \/ /\ DlsymOk
        /\ BeginCall(LibcAddr.mmap, <<0, remote_code_size, 7, 34, 0, 0>>, FALSE)
        /\ hpc' = "mmap_code_ret" /\ UNCHANGED anyFailed
     \/ /\ DlsymFails /\ GotoExit /\ UNCHANGED evars
  /\ UNCHANGED <<env, result, remote_data_addr, remote_code_addr,
                 code_declared, total_items, line, vpc, dvars, tvars,
                 delivered, invoked, stored, walked, trapDrains>>

\* heap.c:187-189
heap_mmap_code_ret ==
  /\ hpc = "mmap_code_ret" /\ cpc = "ret"
  /\ cpc' = "idle"
  /\ IF ResultChecked(cret, func_result)
     THEN /\ remote_code_addr' = func_result /\ hpc' = "write_code"
          /\ UNCHANGED anyFailed
     ELSE GotoExit /\ UNCHANGED remote_code_addr
  /\ UNCHANGED <<env, result, remote_data_addr, code_declared, total_items,
                 line, vpc, cret, ecall, elocal, eghost, dvars, tvars, faults,
                 delivered, invoked, stored, walked, trapDrains, steps, mvars>>

\* heap.c:191-193  copy the trampoline into the code region
heap_write_code ==
  /\ hpc = "write_code"
  /\ Step("write_code")
  /\ \/ /\ MemOk(remote_code_addr) /\ faults' = faults
        /\ tcode' = (remote_code_addr = Layout.code)
        /\ hpc' = "disable" /\ UNCHANGED anyFailed
     \/ /\ MemFails(remote_code_addr) /\ GotoExit
        /\ UNCHANGED tcode
  /\ UNCHANGED <<env, result, remote_data_addr, remote_code_addr,
                 code_declared, total_items, line, vpc, evars, dvars,
                 tattached, tstop, tregs, tmapped, data, tstackw, tdisabled,
                 texec, delivered, invoked, stored, walked, trapDrains>>

\* heap.c:196  remote_malloc_disable
heap_malloc_disable ==
  /\ hpc = "disable"
  /\ Step("disable")
  /\ \/ /\ DlsymOk
        /\ BeginCall(LibcAddr.malloc_disable, <<0, 0, 0, 0, 0, 0>>, FALSE)
        /\ hpc' = "disable_ret" /\ UNCHANGED anyFailed
     \/ /\ DlsymFails /\ GotoExit /\ UNCHANGED evars
  /\ UNCHANGED <<env, result, remote_data_addr, remote_code_addr,
                 code_declared, total_items, line, vpc, dvars, tvars,
                 delivered, invoked, stored, walked, trapDrains>>

\* heap.c:196-208 with remote.c:175-179
heap_malloc_disable_ret ==
  /\ hpc = "disable_ret" /\ cpc = "ret"
  /\ cpc' = "idle"
  /\ IF ResultIgnored(cret, func_result)
     THEN hpc' = "maps_open" /\ Step("disable_ok") /\ UNCHANGED anyFailed
     ELSE GotoExit /\ UNCHANGED <<steps, mvars>>
  /\ UNCHANGED <<env, result, remote_data_addr, remote_code_addr,
                 code_declared, total_items, line, vpc, cret, ecall, elocal,
                 eghost, dvars, tvars, faults, delivered, invoked, stored,
                 walked, trapDrains>>

\* proc.c:18-29  fopen("/proc/<pid>/maps"); heap.c:208 drops the result
maps_iterate_open ==
  /\ hpc = "maps_open"
  /\ \/ /\ trun # "dead" /\ faults' = faults
        /\ hpc' = "maps_loop" /\ line' = 1 /\ UNCHANGED <<anyFailed, maps_ret>>
     \/ /\ trun = "dead" \/ CanFail
        /\ faults' = IF trun = "dead" THEN faults ELSE faults + 1
        /\ maps_ret' = MapsIterateResult(FALSE, FALSE)
        /\ hpc' = AfterMapsIterate(FALSE) /\ anyFailed' = TRUE /\ UNCHANGED line
  /\ UNCHANGED <<env, result, remote_data_addr, remote_code_addr,
                 code_declared, total_items, vpc, evars, dvars, tvars,
                 delivered, invoked, stored, walked, trapDrains, steps, visited>>

\* proc.c:34-44 with heap.c:139-148  getline, sscanf, and the visitor up
\* to its decision to walk the region
maps_iterate_line ==
  /\ hpc = "maps_loop" /\ vpc = "idle"
  /\ IF line > Len(TargetMaps)
     THEN /\ hpc' = AfterMapsIterate(TRUE)
          /\ maps_ret' = MapsIterateResult(TRUE, FALSE)
          /\ UNCHANGED <<line, vpc, visited>>
     ELSE IF ~Parsed(TargetMaps[line])
     THEN line' = line + 1 /\ UNCHANGED <<hpc, vpc, mvars>>
     ELSE /\ visited' = Append(visited, line) /\ UNCHANGED maps_ret
          /\ IF ~IsHeapRegion(TargetMaps[line])
             THEN line' = line + 1 /\ UNCHANGED <<hpc, vpc>>
             ELSE vpc' = "iterate" /\ UNCHANGED <<hpc, line>>
  /\ UNCHANGED <<env, result, remote_data_addr, remote_code_addr,
                 code_declared, total_items, evars, dvars, tvars, faults,
                 delivered, invoked, stored, anyFailed, walked, trapDrains,
                 steps>>

\* The drain the visitor runs after the walk (heap.c:158): it begins
PostDrain == dpc' = "header" /\ dcaller' = "post" /\ vpc' = "drain_ret"

\* heap.c:150-156  remote_malloc_iterate: remote_dlsym, then the call begins
visitor_malloc_iterate ==
  /\ vpc = "iterate"
  /\ Step("iterate")
  /\ \/ /\ DlsymOk
        /\ BeginCall(LibcAddr.malloc_iterate,
                     <<TargetMaps[line].start_addr,
                       TargetMaps[line].end_addr - TargetMaps[line].start_addr,
                       remote_code_addr, remote_data_addr, 0, 0>>, TRUE)
        /\ vpc' = "iterate_ret" /\ UNCHANGED <<anyFailed, dpc, dcaller>>
     \/ /\ DlsymFails /\ anyFailed' = TRUE /\ PostDrain /\ UNCHANGED evars
  /\ UNCHANGED <<env, hpc, result, remote_data_addr, remote_code_addr,
                 code_declared, total_items, line, idx, remote_header, dret,
                 tvars, delivered, invoked, stored, walked, trapDrains>>

\* heap.c:153-158 with remote.c:213-218  a failed call is only reported
visitor_malloc_iterate_ret ==
  /\ vpc = "iterate_ret" /\ cpc = "ret"
  /\ cpc' = "idle"
  /\ walked' = IF ResultIgnored(cret, func_result) THEN walked \cup {line} ELSE walked
  /\ anyFailed' = (anyFailed \/ ~ResultIgnored(cret, func_result))
  /\ PostDrain
  /\ UNCHANGED <<env, hpc, result, remote_data_addr, remote_code_addr,
                 code_declared, total_items, line, cret, ecall, elocal, eghost,
                 idx, remote_header, dret, tvars, faults, delivered, invoked,
                 stored, trapDrains, steps, mvars>>

\* A visitor that also stops the walk when the region's remote call failed.
VisitorContinuesIfIterated(iterated, drained) == iterated /\ drained

\* heap.c:153-161  the visitor's result: a failed remote_malloc_iterate is
\* only reported on stderr, a failed drain returns false
VisitorContinues(iterated, drained) == drained

\* heap.c:158-161 with proc.c:42-43  the visitor returns to maps_iterate
visitor_drain_ret ==
  /\ vpc = "drain_ret" /\ dpc = "ret"
  /\ dpc' = "idle" /\ vpc' = "idle"
  /\ IF VisitorContinues(line \in walked, dret) THEN line' = line + 1 /\ UNCHANGED <<hpc, maps_ret>>
             ELSE /\ hpc' = AfterMapsIterate(TRUE)
                  /\ maps_ret' = MapsIterateResult(TRUE, TRUE)
                  /\ UNCHANGED line
  /\ UNCHANGED <<env, result, remote_data_addr, remote_code_addr,
                 code_declared, total_items, evars, dcaller, idx,
                 remote_header, dret, tvars, faults, delivered, invoked,
                 stored, anyFailed, walked, trapDrains, steps, visited>>

\* heap.c:211  remote_malloc_enable
heap_malloc_enable ==
  /\ hpc = "enable"
  /\ Step("enable")
  /\ \/ /\ DlsymOk
        /\ BeginCall(LibcAddr.malloc_enable, <<0, 0, 0, 0, 0, 0>>, FALSE)
        /\ hpc' = "enable_ret" /\ UNCHANGED anyFailed
     \/ /\ DlsymFails /\ GotoExit /\ UNCHANGED evars
  /\ UNCHANGED <<env, result, remote_data_addr, remote_code_addr,
                 code_declared, total_items, line, vpc, dvars, tvars,
                 delivered, invoked, stored, walked, trapDrains>>

\* heap.c:211-217
heap_malloc_enable_ret ==
  /\ hpc = "enable_ret" /\ cpc = "ret"
  /\ cpc' = "idle"
  /\ hpc' = "munmap_data"
  /\ IF ResultIgnored(cret, func_result)
     THEN result' = ~context_failed /\ UNCHANGED anyFailed
     ELSE anyFailed' = TRUE /\ UNCHANGED result
  /\ UNCHANGED <<env, remote_data_addr, remote_code_addr, code_declared,
                 total_items, line, vpc, cret, ecall, elocal, eghost, dvars,
                 tvars, faults, delivered, invoked, stored, walked, trapDrains, steps, mvars>>

\* heap.c:220  remote_munmap(pid, remote_data_addr, remote_data_size)
heap_munmap_data ==
  /\ hpc = "munmap_data"
  /\ Step("munmap_data")
  /\ \/ /\ DlsymOk
        /\ BeginCall(LibcAddr.munmap, <<remote_data_addr, PageSize, 0, 0, 0, 0>>, FALSE)
        /\ hpc' = "munmap_data_ret"
     \/ /\ DlsymFails /\ hpc' = "munmap_code" /\ UNCHANGED evars
  /\ UNCHANGED <<env, result, remote_data_addr, remote_code_addr,
                 code_declared, total_items, line, vpc, dvars, tvars, delivered,
                 invoked, stored, anyFailed, walked, trapDrains>>

\* heap.c:220  the result is dropped
heap_munmap_data_ret ==
  /\ hpc = "munmap_data_ret" /\ cpc = "ret"
  /\ cpc' = "idle" /\ hpc' = "munmap_code"
  /\ UNCHANGED <<env, result, remote_data_addr, remote_code_addr,
                 code_declared, total_items, line, vpc, cret, ecall, elocal,
                 eghost, dvars, tvars, faults, hist>>

\* heap.c:221  remote_munmap(pid, remote_code_addr, remote_code_size)
heap_munmap_code ==
  /\ hpc = "munmap_code"
  /\ Step("munmap_code")
  /\ \/ /\ DlsymOk
        /\ \E addr \in (IF code_declared THEN {remote_code_addr} ELSE Indeterminate),
              size \in (IF code_declared THEN {remote_code_size}
                        ELSE IndeterminateSizes) :
             BeginCall(LibcAddr.munmap, <<addr, size, 0, 0, 0, 0>>, FALSE)
        /\ hpc' = "munmap_code_ret"
     \/ /\ DlsymFails /\ hpc' = "done" /\ UNCHANGED evars
  /\ UNCHANGED <<env, result, remote_data_addr, remote_code_addr,
                 code_declared, total_items, line, vpc, dvars, tvars, delivered,
                 invoked, stored, anyFailed, walked, trapDrains>>

\* heap.c:221-222  return result
heap_munmap_code_ret ==
  /\ hpc = "munmap_code_ret" /\ cpc = "ret"
  /\ cpc' = "idle" /\ hpc' = "done"
  /\ UNCHANGED <<env, result, remote_data_addr, remote_code_addr,
                 code_declared, total_items, line, vpc, cret, ecall, elocal,
                 eghost, dvars, tvars, faults, hist>>

(***************************************************************************)
(* The specification.                                                      *)
(***************************************************************************)
Observer ==
  \/ heap_mmap_data \/ heap_mmap_data_ret \/ heap_write_header
  \/ heap_mmap_code \/ heap_mmap_code_ret \/ heap_write_code
  \/ heap_malloc_disable \/ heap_malloc_disable_ret
  \/ maps_iterate_open \/ maps_iterate_line
  \/ visitor_malloc_iterate \/ visitor_malloc_iterate_ret \/ visitor_drain_ret
  \/ heap_malloc_enable \/ heap_malloc_enable_ret
  \/ heap_munmap_data \/ heap_munmap_data_ret
  \/ heap_munmap_code \/ heap_munmap_code_ret
  \/ drain_read_header \/ drain_process_entry \/ drain_write_header
  \/ ptrace_attach_request \/ ptrace_attach_wait \/ ptrace_getregs_setup
  \/ ptrace_pokedata \/ ptrace_setregs_call \/ ptrace_continue_call
  \/ ptrace_wait \/ ptrace_trap_callback_ret \/ ptrace_trap_getregs
  \/ ptrace_trap_setregs \/ ptrace_trap_continue \/ ptrace_getsiginfo_call
  \/ ptrace_final_getregs \/ ptrace_restore \/ ptrace_detach_return

Target ==
  \/ T_mmap \/ T_munmap \/ T_malloc_disable \/ T_malloc_enable
  \/ T_malloc_iterate \/ T_WalkInvoke \/ T_WalkReturn
  \/ T_Check \/ T_Brk \/ T_Store1 \/ T_Store2
  \/ T_Fault \/ T_Exit

Next == Observer \/ Target

Spec == Init /\ [][Next]_vars

\* The observer is a running process that takes its next step, and a
\* target that was resumed is scheduled.
FairSpec == Spec /\ WF_vars(Observer) /\ WF_vars(Target)

\* The runs in which a thread of the target may also overwrite the header
\* of the shared buffer.
NextCorrupt == Next \/ T_Scribble

CorruptSpec == Init /\ [][NextCorrupt]_vars

(***************************************************************************)
(* Vocabulary of the properties.                                           *)
(***************************************************************************)
Done == hpc = "done"

\* The lines of the maps file the visitor walks.
SelectedLines ==
  {l \in 1..Len(TargetMaps) :
     TargetMaps[l].fields >= 6 /\ IsHeapRegion(TargetMaps[l])}

\* heap_iterate is between the initial header write and the teardown.
WalkPcs == {"mmap_code", "mmap_code_ret", "write_code", "disable",
            "disable_ret", "maps_open", "maps_loop", "enable", "enable_ret"}

CursorInRange(cursor, max) == HEADER_SIZE <= cursor /\ cursor <= max

\* The visitor is between two regions (or the walk is over).
BetweenRegions == vpc = "idle" /\ dpc = "idle" /\ cpc = "idle"

(***************************************************************************)
(* Properties.                                                             *)
(***************************************************************************)

\* C1: heap_iterate returns true iff no step (provisioning, malloc_disable,
\* opening the maps, a per-region malloc_iterate call, a drain,
\* malloc_enable) reported failure.
C1_TrueIffNoStepFailed == Done => (result <=> ~anyFailed)

\* C2: whenever heap_iterate returns true, every selected region was walked
\* by a remote malloc_iterate call that reported success, and every entry
\* the trampoline stored was delivered to the user callback.
C2_TrueMeansComplete ==
  (Done /\ result) => (SelectedLines \subseteq walked /\ delivered = stored)

\* C3: with no failure of any kind, when the walk of a region is over the
\* user callback has been called exactly once per trampoline invocation,
\* in total and with the values the trampoline stored, however many trap
\* drains happened.
C3_DeliveredExactlyOnce ==
  (faults = 0 /\ BetweenRegions) => (delivered = invoked /\ delivered = stored)

\* The chunks of the selected regions: those that lie in a walked range.
AllChunks ==
  {c \in UNION {{Chunk(TargetMaps[l].start_addr, k) : k \in 1..MaxChunks} :
                l \in SelectedLines} :
     \E l \in SelectedLines :
        TargetMaps[l].start_addr <= c[1] /\ c[1] < TargetMaps[l].end_addr}

\* C3 witness: a run without failures ended after a trap drain, with every
\* region reporting all its chunks, more than the buffer holds.
C3_Witness ==
  /\ Done /\ faults = 0 /\ result /\ trapDrains > 0
  /\ Len(delivered) = Cardinality(AllChunks)
  /\ Len(delivered) >= 2 * MaxChunks
  /\ MaxChunks > (MaxValidIdx - HEADER_SIZE) \div ENTRY_SIZE

\* C4: the user callback receives entries in the order in which
\* malloc_iterate invoked the trampoline (regions in maps order): of two
\* deliveries, the later one is never of an entry invoked earlier.
C4_DeliveredInOrder ==
  \A i, j \in 1..Len(delivered) :
     i < j =>
       \E p, q \in 1..Len(invoked) :
          p <= q /\ invoked[p] = delivered[i] /\ invoked[q] = delivered[j]

\* C5: during a walk the cursor in the shared header stays between
\* HEADER_SIZE and max_entries, max_entries is the value written at
\* provisioning, and every drain reads a cursor in that range.
C5_CursorInRange ==
  /\ hpc \in WalkPcs =>
       /\ data[MAX_VALID_IDX] = MaxValidIdx
       /\ CursorInRange(data[NEXT_FREE_IDX], data[MAX_VALID_IDX])
  /\ dpc = "entries" =>
       CursorInRange(remote_header[NEXT_FREE_IDX], remote_header[MAX_VALID_IDX])

\* C5 witness: a trap drain reads a full buffer (cursor = max_entries).
C5_Witness ==
  /\ dpc = "entries" /\ dcaller = "trap" /\ hpc \in WalkPcs
  /\ remote_header[NEXT_FREE_IDX] = MaxValidIdx

\* C6: a remote call reports success only if the injected function
\* returned; and when it returned and the call went on to detach from the
\* target, the call reports success.
C6_SuccessIffReturned ==
  cpc = "ret" =>
    /\ cret => returned
    /\ (returned /\ detach_issued /\ ~tattached) => cret

\* C7: after a remote call that reports success the target's registers
\* equal the snapshot taken right after attach, and the backup copy is
\* still that snapshot.
C7_RegistersRestored ==
  (cpc = "ret" /\ cret) => (tregs = snapshot /\ backup_registers = snapshot)

\* C7 witness: a call with a trap-and-resume cycle reported success.
C7_Witness ==
  /\ cpc = "ret" /\ cret /\ has_cb /\ returned /\ twalk = MaxChunks
  /\ trapDrains > 0 /\ snapshot = OrigRegs

\* C8: when a remote call that attached returns, PTRACE_DETACH has been
\* issued.
C8_DetachOnEveryExit == (cpc = "ret" /\ c_attached) => detach_issued

\* C9: when a remote call that attached returns while the living target's
\* registers differ from the ones it was attached with, the backup
\* registers have been written back.
C9_RestoreOnEveryExit ==
  (cpc = "ret" /\ c_attached /\ trun # "dead" /\ tregs # OrigRegs)
     => restore_issued

\* C10: after heap_iterate returns no mapping made by the run's remote
\* mmap calls is left in the target.
C10_NothingLeftMapped ==
  Done => (Layout.data \notin tmapped /\ Layout.code \notin tmapped)

\* The observer's next step reads or writes the data page: the initial
\* header write (heap.c:177) or a step of a drain (heap.c:109-133).
ObserverAtData == hpc = "write_header" \/ dpc \in {"header", "entries"}

\* The target executes inside an injected call.
TargetInCall == trun = "run" /\ tpos \in ({"entry", "walk"} \cup TrampolinePos)

\* C11 as stated: the observer reads or writes the data page only while
\* the target is in a ptrace stop, never while the target is running.
C11_AccessOnlyWhileStopped == ObserverAtData => (trun = "stop" /\ tattached)

\* C11 amended: the observer never reads or writes the data page while the
\* target runs inside an injected call; a trap drain happens in the SIGTRAP
\* stop of the call, the initial header write and the post-walk drain
\* happen outside any call in progress.  The target is inside the
\* trampoline (the only code that writes the page) only while it is
\* running and traced.
C11_NoAccessDuringCall ==
  /\ ObserverAtData => ~TargetInCall
  /\ (dpc \in {"header", "entries"} /\ dcaller = "trap")
        => (trun = "stop" /\ tattached /\ tsig = "SIGTRAP")
  /\ tpos \in TrampolinePos => (trun = "run" /\ tattached)

\* C11 witness: the post-walk drain reads an entry the trampoline stored
\* while the target, detached after the call, is running its own code.
C11_Witness ==
  /\ dpc = "entries" /\ dcaller = "post" /\ idx < remote_header[NEXT_FREE_IDX]
  /\ trun = "run" /\ ~tattached /\ tpos = "idle" /\ trapDrains > 0

\* How often a step was begun in the run so far.
Count(name) == Cardinality({i \in 1..Len(steps) : steps[i] = name})

\* C12: each remote malloc_iterate call is issued after a remote
\* malloc_disable call succeeded and before remote malloc_enable is called;
\* and once malloc_disable succeeded, malloc_enable is called exactly once
\* before heap_iterate returns (never twice), whatever the walk did.
C12_IterateInsideDisableWindow ==
  /\ \A i \in 1..Len(steps) :
       steps[i] = "iterate" =>
         /\ \E j \in 1..(i - 1) : steps[j] = "disable_ok"
         /\ \A k \in 1..(i - 1) : steps[k] # "enable"
  /\ Count("enable") <= 1
  /\ Count("enable") = 1 => Count("disable_ok") = 1
  /\ (Done /\ Count("disable_ok") = 1) => Count("enable") = 1

\* C12 witness: heap_iterate returned after a walk in which a remote
\* malloc_iterate call failed, and malloc_enable was called.
C12_Witness ==
  /\ Done /\ Count("iterate") > 0 /\ anyFailed /\ Count("enable") = 1
  /\ walked # SelectedLines

\* A remote malloc_iterate call is in progress and nothing has failed.
IterateInProgress ==
  vpc = "iterate_ret" /\ cpc \notin {"idle", "ret"} /\ faults = 0

\* The call has ended with the sentinel fault and reports success.
IterateCompleted ==
  /\ vpc = "iterate_ret" /\ cpc = "ret" /\ cret /\ returned
  /\ tsig = "SIGSEGV" /\ tsiaddr = 0

\* C13: with max_entries > header_words and no failure, a remote
\* malloc_iterate call in progress eventually completes with the sentinel
\* fault, and no trampoline invocation traps twice: the drain after a trap
\* resets the cursor, so the trampoline leaves its loop and stores.
C13_WalkCompletes ==
  /\ [](faults = 0 => ntraps # "again")
  /\ IterateInProgress ~> (IterateCompleted \/ faults > 0)

\* C13 witness: a call whose last invocation trapped once has completed,
\* with no failure, after reporting every chunk.
C13_Witness ==
  /\ IterateCompleted /\ faults = 0 /\ ntraps = "once" /\ twalk = MaxChunks
  /\ MaxValidIdx > HEADER_SIZE

\* The target exited or was killed during a remote malloc_iterate call.
DiedInIterate == trun = "dead" /\ func_addr = LibcAddr.malloc_iterate /\ has_cb

\* C14: when the target exits or is killed during a remote malloc_iterate
\* call, the call is reported failed by the waitpid that shows the exit
\* (the loop does not wait again after it), and heap_iterate returns false.
C14_TargetDeathFailsRun ==
  DiedInIterate =>
    /\ tevent # "reaped"
    /\ cpc = "ret" => ~cret
    /\ (cpc = "wait" /\ c_attached) => tevent \in {"exited", "gone"}
    /\ Done => ~result

\* C14 witness: heap_iterate has returned after the target died in the
\* middle of a walk, inside the trampoline, with entries already stored.
C14_Witness ==
  /\ Done /\ DiedInIterate /\ c_attached /\ ~result
  /\ twalk > 0 /\ twalk < MaxChunks /\ Len(stored) > 0

\* The target as it was before heap_iterate: nothing of it was modified.
TargetUntouched ==
  /\ tregs = OrigRegs /\ tstackw = Layout.junk
  /\ tmapped = {TargetMaps[i].start_addr : i \in 1..Len(TargetMaps)}
  /\ data = ZeroPage /\ ~tcode /\ ~tdisabled /\ ~tattached /\ trun = "run"

\* C15: when every PTRACE_ATTACH fails, heap_iterate returns false, the
\* user callback is never invoked, and no register, memory or mapping of
\* the target is changed.
C15_NoAttachNoEffect ==
  ~can_attach =>
    /\ TargetUntouched
    /\ delivered = <<>> /\ total_items = 0
    /\ Done => ~result

\* C15 witness: heap_iterate has returned without ever attaching, after
\* its first remote call and both teardown calls failed at the attach.
C15_Witness ==
  /\ Done /\ ~can_attach /\ ~result
  /\ steps = <<"mmap_data", "munmap_data", "munmap_code">>
  /\ cpc = "idle" /\ ~c_attached /\ func_addr = LibcAddr.munmap

\* The program counters of one turn of the wait loop after a trap
\* (ptrace.c:226-243).
TrapTurnPcs == {"trapcb", "trap_getregs", "trap_setregs", "trap_cont"}

\* ptrace.c:234 and 236  the width of the trap instruction that is stepped over
TrapDelta(arc) == IF arc = "arm64" THEN 4 ELSE 1

\* C16: in the wait loop of a remote call, a stop that is not SIGTRAP, or a
\* SIGTRAP when no trap callback was supplied, ends the loop; a SIGTRAP with
\* a callback starts the callback once, consuming that stop; only after the
\* callback returned true are the registers read, the instruction pointer
\* advanced by the trap delta (+4 on ARM64, +1 on x86-64), the registers
\* written and the target continued; when the callback returns false the
\* loop ends with the target still stopped and its registers as they were,
\* and a call whose last stop was that SIGTRAP returns false.
C16_WaitLoop ==
  [][ /\ (cpc = "wait" /\ tevent = "stopped" /\ cpc' # cpc) =>
           IF ~has_cb \/ tsig # "SIGTRAP"
           THEN cpc' = "getsiginfo" /\ dpc' = dpc /\ trun' = "stop"
           ELSE cpc' = "trapcb" /\ dpc = "idle" /\ dpc' = "header"
                /\ dcaller' = "trap"
      /\ (dpc # "header" /\ dpc' = "header" /\ dcaller' = "trap") =>
           /\ cpc = "wait" /\ cpc' = "trapcb" /\ has_cb /\ tsig = "SIGTRAP"
           /\ tevent = "stopped" /\ tevent' = "none"
      /\ (cpc = "trapcb" /\ cpc' # cpc) =>
           /\ dpc = "ret" /\ dpc' = "idle"
           /\ cpc' = IF dret THEN "trap_getregs" ELSE "getsiginfo"
           /\ trun' = "stop" /\ tregs' = tregs
      /\ (cpc' = "trap_getregs" /\ cpc # cpc') => (cpc = "trapcb" /\ dret)
      /\ (cpc' = "trap_setregs" /\ cpc # cpc') =>
           /\ cpc = "trap_getregs"
           /\ registers' = [tregs EXCEPT !.ip = tregs.ip + TrapDelta(arch)]
           /\ tregs' = tregs
      /\ (cpc' = "trap_cont" /\ cpc # cpc') =>
           (cpc = "trap_setregs" /\ tregs' = registers /\ trun' = "stop")
      /\ (cpc \in TrapTurnPcs /\ trun' = "run") =>
           (cpc = "trap_cont" /\ cpc' = "wait" /\ trun = "stop")
      /\ (cpc \in TrapTurnPcs /\ tregs' # tregs) => cpc = "trap_setregs"
      /\ (cpc' = "ret" /\ cpc # cpc' /\ status = "SIGTRAP") => ~cret'
    ]_vars

\* A trap was handled: the callback returned true, the instruction pointer
\* was moved over the trap instruction and the target runs again.
C16_Witness ==
  /\ cpc = "wait" /\ has_cb /\ status = "SIGTRAP" /\ trapDrains > 0
  /\ trun = "run" /\ tpos = "check"
  /\ tregs.ip = TrapIp(arch) + TrapDelta(arch)

\* The requests after the wait loop (ptrace.c:247-254) were all served: the
\* detach was issued and the target is no longer traced.
TailServed == detach_issued /\ ~tattached

\* C17 as stated: a remote call that saw a stop returns true iff that final
\* stop is SIGSEGV with fault address 0.
C17_TrueIffSentinelStop ==
  (cpc = "ret" /\ status # "none") =>
     (cret <=> (tsig = "SIGSEGV" /\ tsiaddr = 0))

\* C17, amended: a remote call returns true iff its final stop is SIGSEGV
\* with fault address 0 and getsiginfo, getregs, the register restore and
\* the detach after the loop were all served.  When they were served the
\* value stored in *func_result is the return register (x0 / RAX) of the
\* register set read at the final stop, before the backup was written
\* back, whatever the stop was; when one of them failed the call returns
\* false and *func_result is left as it was.
C17_TrueIffSentinelStopAndTailServed ==
  /\ [](cpc = "ret" =>
          (cret <=> (TailServed /\ tsig = "SIGSEGV" /\ tsiaddr = 0)))
  /\ [](cpc = "restore" =>
          (trun = "stop" /\ registers = tregs /\ status = tsig
           /\ si_addr = tsiaddr))
  /\ [][ /\ cpc = "restore" => registers' = registers
         /\ (cpc = "detach" /\ cpc' = "ret" /\ ~tattached') =>
              /\ func_result' = registers_retval(arch, registers)
              /\ tregs' = backup_registers
         /\ (cpc # "ret" /\ cpc' = "ret" /\ tattached' = tattached) =>
              (func_result' = func_result /\ ~cret')
       ]_vars

\* A call ended on a stop that is not the sentinel return (here a fault at
\* a non-zero address): it returned false, and the return register of the
\* final stop was stored all the same.
C17_Witness ==
  /\ cpc = "ret" /\ ~cret /\ TailServed
  /\ tsig = "SIGSEGV" /\ tsiaddr = Layout.fault
  /\ func_result = registers_retval(arch, registers)
  /\ tregs = backup_registers

\* heap_iterate has left maps_iterate (heap.c:211-222).
AfterWalkPcs == {"enable", "enable_ret", "munmap_data", "munmap_data_ret",
                 "munmap_code", "munmap_code_ret", "done"}

\* C18: a drain that reads a header with cursor > max_entries returns false
\* in the step that read it, without a user callback and without a write to
\* the shared buffer or to the item count; when it was the trap callback
\* the loop is left and the remote call returns false, and when it was the
\* drain after the walk maps_iterate stops and no further region is walked.
C18_CorruptHeaderFailsDrain ==
  /\ [][ (dpc = "header" /\ dpc' # dpc /\ CursorPastMax(data)) =>
           /\ dpc' = "ret" /\ ~dret'
           /\ delivered' = delivered /\ data' = data
           /\ total_items' = total_items ]_vars
  /\ []((dcaller = "trap" /\ dpc \in {"ret", "idle"}
         /\ CursorPastMax(remote_header)) =>
          /\ cpc \in {"trapcb", "getsiginfo", "final_getregs", "restore",
                      "detach", "ret"}
          /\ ~dret /\ status = "SIGTRAP"
          /\ (cpc = "ret" => ~cret))
  /\ []((dcaller = "post" /\ dpc \in {"ret", "idle"}
         /\ CursorPastMax(remote_header)) =>
          /\ ~dret
          /\ (dpc = "ret" => vpc = "drain_ret")
          /\ (dpc = "idle" => (hpc \in AfterWalkPcs /\ vpc = "idle")))
  /\ [][ (dcaller = "post" /\ dpc = "idle" /\ CursorPastMax(remote_header)) =>
           (steps' = steps \/ steps' \in {Append(steps, n) :
                                n \in {"enable", "munmap_data", "munmap_code"}})
       ]_vars

\* The trap callback found the cursor past max_entries, and the call of
\* malloc_iterate has returned false.
C18_Witness ==
  /\ cpc = "ret" /\ ~cret /\ has_cb /\ dcaller = "trap"
  /\ CursorPastMax(remote_header) /\ CursorPastMax(data)
  /\ vpc = "iterate_ret"

\* The words of the page from i on are the same before and after the step.
SameFrom(i) == \A j \in DOMAIN data : j >= i => data'[j] = data[j]

\* heap.c:78-79  one store of the trampoline: the word under the cursor is
\* written and the cursor moves on by one word
TrampolineStore ==
  /\ trun = "run" /\ tpos \in {"store1", "store2"}
  /\ data'[NEXT_FREE_IDX] = data[NEXT_FREE_IDX] + 1
  /\ data'[MAX_VALID_IDX] = data[MAX_VALID_IDX]
  /\ \A j \in DOMAIN data :
       j \notin {NEXT_FREE_IDX, data[NEXT_FREE_IDX]} => data'[j] = data[j]

\* heap.c:131-136  the write-back that ends a successful drain
DrainWriteBack ==
  /\ dpc = "entries" /\ dpc' = "ret" /\ dret'
  /\ data'[NEXT_FREE_IDX] = HEADER_SIZE
  /\ data'[MAX_VALID_IDX] = remote_header[MAX_VALID_IDX]
  /\ data'[MAX_VALID_IDX] = data[MAX_VALID_IDX]
  /\ SameFrom(HEADER_SIZE)

\* C19: during a walk the shared buffer changes only by a store of the
\* trampoline, which moves the cursor up by one word (two stores, one
\* entry stride, per stored entry), or by the write-back of a successful
\* drain, which sets the cursor to header_words and leaves max_entries (as
\* read by the drain) and every entry word as they were; a drain that
\* fails, and every other step, leaves the buffer alone, so the cursor
\* never decreases except by that reset.
C19_CursorFrame ==
  /\ [][ (hpc \in WalkPcs /\ data' # data) =>
           (TrampolineStore \/ DrainWriteBack) ]_vars
  /\ [][ (hpc \in WalkPcs /\ tpos = "store1" /\ tpos' = "store2") =>
           data'[NEXT_FREE_IDX] = data[NEXT_FREE_IDX] + 1 ]_vars
  /\ [][ (hpc \in WalkPcs /\ tpos = "store2" /\ tpos' = "walk") =>
           /\ data'[NEXT_FREE_IDX] = data[NEXT_FREE_IDX] + 1
           /\ (data'[NEXT_FREE_IDX] - HEADER_SIZE) % ENTRY_SIZE = 0
           /\ data'[NEXT_FREE_IDX] - HEADER_SIZE >= ENTRY_SIZE ]_vars
  /\ [][ (hpc \in WalkPcs /\ dpc \in {"header", "entries"} /\ ~dret'
          /\ dpc' = "ret") => data' = data ]_vars

\* The trap callback has drained and reset a full buffer, and the
\* trampoline has stored the next entry behind the header.
C19_Witness ==
  /\ hpc = "maps_loop" /\ trapDrains > 0 /\ tpos = "walk" /\ trun = "run"
  /\ data[NEXT_FREE_IDX] = HEADER_SIZE + ENTRY_SIZE
  /\ Len(stored) > Len(delivered)

\* heap.c:169-196  the steps before the walk, in the order of the code
ProvisionOrder ==
  <<"mmap_data", "write_header", "mmap_code", "write_code", "disable">>

\* heap.c:220-221  the steps after the label exit
TeardownSteps == {"munmap_data", "munmap_code"}

\* The run was aborted before the walk: malloc_disable did not succeed.
Aborted == Count("disable_ok") = 0

\* The steps of the run so far are the first n provisioning steps, in
\* order, and after them at most the teardown.
AbortedInOrder ==
  LET n == Cardinality({i \in 1..Len(steps) : steps[i] \notin TeardownSteps})
  IN /\ n <= Len(ProvisionOrder)
     /\ \A i \in 1..n : steps[i] = ProvisionOrder[i]
     /\ SubSeq(steps, n + 1, Len(steps)) \in
          {<<>>, <<"munmap_data">>, <<"munmap_data", "munmap_code">>}

\* Order and abort: the provisioning steps run in the order of the code; a
\* run in which one of them (or malloc_disable) failed takes no later
\* provisioning step, calls none of malloc_disable (again), malloc_iterate
\* and malloc_enable, delivers nothing, and returns false after both
\* remote_munmap calls were made.
ProvisioningAborts ==
  /\ ~Aborted => SubSeq(steps, 1, Len(ProvisionOrder) + 1) =
                   ProvisionOrder \o <<"disable_ok">>
  /\ Aborted => /\ AbortedInOrder
                /\ delivered = <<>> /\ total_items = 0
                /\ Count("iterate") = 0 /\ Count("enable") = 0
  /\ (Done /\ Aborted) =>
       /\ ~result
       /\ Count("munmap_data") = 1 /\ Count("munmap_code") = 1

\* C20: provisioning runs in the order data-page mmap, header write,
\* code-region mmap, trampoline copy; a failure of one of these steps (or of
\* malloc_disable) aborts the run: no later provisioning step, no
\* malloc_disable / malloc_iterate / malloc_enable call and no user
\* callback follow, and heap_iterate returns false with the regions the
\* run acquired released (here: in a run with a single failure and a
\* living target, neither region is mapped when heap_iterate returns).
C20_AbortReleasesRegions ==
  /\ ProvisioningAborts
  /\ (Done /\ Aborted /\ faults <= 1 /\ trun # "dead") =>
       (Layout.data \notin tmapped /\ Layout.code \notin tmapped)

\* C21: on every return path of heap_iterate teardown issues a remote
\* munmap of the data region and then one of the code region, and each is
\* called with the address and the size of that region: the data munmap
\* with remote_data_addr (the mapped data page, or 0 when none was
\* recorded) and the page size, the code munmap with the mapped code
\* region (or 0 when none was recorded) and remote_code_size.
C21_TeardownUnmapsBothRegions ==
  /\ Done => /\ Len(steps) >= 2
             /\ SubSeq(steps, Len(steps) - 1, Len(steps)) =
                  <<"munmap_data", "munmap_code">>
  /\ hpc = "munmap_data_ret" =>
       /\ func_addr = LibcAddr.munmap
       /\ args[1] = remote_data_addr /\ args[1] \in {0, Layout.data}
       /\ args[2] = PageSize
  /\ hpc = "munmap_code_ret" =>
       /\ func_addr = LibcAddr.munmap
       /\ args[1] \in {0, Layout.code}
       /\ args[2] = remote_code_size

\* The path begins with the text lit.
PathBegins(p, lit) == Len(p) >= Len(lit) /\ SubSeq(p, 1, Len(lit)) = lit

\* The regions C22 names: readable, and backed by exactly
\* "[anon:libc_malloc]" or by a path that begins with "[anon:scudo:" or with
\* "[anon:GWP-ASan".
NamedHeapRegion(entry) ==
  /\ entry.permissions[1] = "r"
  /\ \/ entry.pathname = <<"[anon:", "libc_malloc", "]">>
     \/ PathBegins(entry.pathname, <<"[anon:", "scudo:">>)
     \/ PathBegins(entry.pathname, <<"[anon:", "GWP-ASan">>)

\* The region records maps_iterate has handed to the visitor and the
\* visitor has finished with.
RecordsBefore(l) == {k \in 1..(l - 1) : TargetMaps[k].fields >= 6}

\* C22: a region record is passed to remote malloc_iterate iff its first
\* permission character is 'r' and its path is exactly "[anon:libc_malloc]"
\* or begins with "[anon:scudo:" or with "[anon:GWP-ASan"; for every other
\* record there is no remote call and no drain; and for a selected region
\* [s, e) the call is malloc_iterate(s, e - s, code_addr, data_addr) with
\* the trap callback, which is what the target's walk receives.
C22_NamedRegionsAreWalked ==
  /\ vpc # "idle" =>
       (TargetMaps[line].fields >= 6 /\ NamedHeapRegion(TargetMaps[line]))
  /\ hpc = "maps_loop" =>
       /\ Count("iterate") =
            Cardinality({k \in RecordsBefore(line) : NamedHeapRegion(TargetMaps[k])})
            + (IF vpc \in {"iterate_ret", "drain_ret"} THEN 1 ELSE 0)
       /\ (cpc # "idle" \/ dpc # "idle") => vpc \in {"iterate_ret", "drain_ret"}
  /\ vpc = "iterate_ret" =>
       /\ func_addr = LibcAddr.malloc_iterate /\ has_cb
       /\ args = <<TargetMaps[line].start_addr,
                   TargetMaps[line].end_addr - TargetMaps[line].start_addr,
                   remote_code_addr, remote_data_addr, 0, 0>>
       /\ remote_code_addr = Layout.code /\ remote_data_addr = Layout.data
       /\ (tpos = "walk" /\ trun = "run") => tregs.a = args

\* The last record of the maps, a readable "[anon:GWP-ASan ..." region, is
\* being walked in the target after the two heap regions before it.
C22_Witness ==
  /\ vpc = "iterate_ret" /\ line = Len(TargetMaps) /\ Count("iterate") = 3
  /\ PathBegins(TargetMaps[line].pathname, <<"[anon:", "GWP-ASan">>)
  /\ tpos = "walk" /\ trun = "run" /\ tregs.a[1] = TargetMaps[line].start_addr

\* The last remote call completed with the sentinel fault and the function
\* it called had returned -1 in the target.
ReturnedMinusOne(name) ==
  func_addr = LibcAddr[name] /\ cpc = "idle" /\ cret /\ func_result = MinusOne

\* C23: a remote libc wrapper whose function returned -1 in the target
\* reports failure although the remote call completed: heap_iterate is
\* never past a remote_mmap or a remote_malloc_disable it took as
\* successful, the visitor never counts a region as walked, and
\* heap_iterate never sets its result to true after remote_malloc_enable,
\* when the function behind the wrapper returned -1.  (What remote_munmap
\* reports is dropped by heap_iterate and leaves no trace in the state.)
C23_MinusOneIsFailure ==
  /\ hpc \in {"write_header", "write_code"} => ~ReturnedMinusOne("mmap")
  /\ hpc = "maps_open" => ~ReturnedMinusOne("malloc_disable")
  /\ (vpc = "drain_ret" /\ line \in walked) => ~ReturnedMinusOne("malloc_iterate")
  /\ (hpc = "munmap_data" /\ result) => ~ReturnedMinusOne("malloc_enable")

\* The visitor has been called on the record at `line` and has not yet
\* returned, or it has returned stop there.
AtVisitedLine == vpc # "idle" \/ (maps_ret = "true" /\ line <= Len(TargetMaps))

\* C24: maps_iterate calls the visitor in file order, once for each line
\* that parses to at least six fields and never for a line with fewer; once
\* the visitor has returned stop no further line is visited; and it
\* returns false only when the file could not be opened (no line was read)
\* and true otherwise, also when the visitor stopped early.
C24_MapsIterateVisitsInOrder ==
  /\ \A i, j \in 1..Len(visited) : i < j => visited[i] < visited[j]
  /\ \A i \in 1..Len(visited) : TargetMaps[visited[i]].fields >= 6
  /\ line >= 1 =>
       {visited[i] : i \in 1..Len(visited)} =
         {k \in 1..Len(TargetMaps) :
            /\ TargetMaps[k].fields >= 6
            /\ k < line \/ (k = line /\ AtVisitedLine)}
  /\ line = 0 => visited = <<>>
  /\ maps_ret = "false" => (line = 0 /\ ~Aborted)
  /\ maps_ret = "true" => line >= 1
  /\ (hpc \in AfterWalkPcs /\ ~Aborted) => maps_ret # "none"
  /\ (hpc \notin AfterWalkPcs \/ Aborted) => maps_ret = "none"

\* The visitor returned stop at the first region (its drain failed):
\* maps_iterate returned true, and the lines after it were never visited.
C24_Witness ==
  /\ maps_ret = "true" /\ Done /\ visited = <<1>> /\ line = 1
  /\ ~dret /\ dcaller = "post"

Least(S) == CHOOSE x \in S : \A y \in S : x <= y

\* The lines of the observer's maps that are region records holding the
\* address find_remote_addr was given.
LocalRegions ==
  {k \in 1..Len(local_maps) :
     /\ local_maps[k].fields >= 6
     /\ local_maps[k].start_addr <= find.addr
     /\ find.addr < local_maps[k].end_addr}

\* The region records of the target's maps with the length, the permission
\* string and the path of the local region m.
TargetMatches(m) ==
  {k \in 1..Len(remote_maps) :
     /\ remote_maps[k].fields >= 6
     /\ remote_maps[k].end_addr - remote_maps[k].start_addr =
          m.end_addr - m.start_addr
     /\ remote_maps[k].permissions = m.permissions
     /\ remote_maps[k].pathname = m.pathname}

Resolvable ==
  /\ find.open_local /\ find.open_remote
  /\ LocalRegions # {}
  /\ TargetMatches(local_maps[Least(LocalRegions)]) # {}

\* C25: find_remote_addr returns true iff a local region holds the address
\* and the target's maps hold a region of the same length, permission
\* string and path (and both maps files could be read); it then stores
\* target_region.start + (local_addr - local_region.start) for the first
\* such target region in the order of the file; when it fails *remote_addr
\* is what it was at the call.
C25_TranslationByFirstEquivalentRegion ==
  find.pc = "done" =>
    /\ find.ret <=> Resolvable
    /\ find.ret =>
         LET l == local_maps[Least(LocalRegions)]
             t == remote_maps[Least(TargetMatches(l))]
         IN find.remote_addr = t.start_addr + (find.addr - l.start_addr)
    /\ ~find.ret => find.remote_addr = find.remote_addr_in

\* An address inside the library's text segment is translated through the
\* first of two equivalent regions of the target, which is not the first
\* region of the library there.
C25_Witness ==
  /\ find.pc = "done" /\ find.ret /\ find.addr = 260
  /\ Cardinality(TargetMatches(find.by_addr.entry)) = 2
  /\ find.remote_addr = 2060 /\ find.remote_addr_in = 7

(***************************************************************************)
(* The index of every store of the trampoline                              *)
(***************************************************************************)

\* The cursor is a whole number of entries past the header.
OnEntryBoundary(c) == (c - HEADER_SIZE) % ENTRY_SIZE = 0

\* heap.c:78-79  the target is about to perform a store of the trampoline
AtStore == trun = "run" /\ tpos \in {"store1", "store2"}

\* The word index the next store of the trampoline writes to.
StoreIndex == data[NEXT_FREE_IDX]

\* C26: every store the trampoline performs targets a word index i with
\* header_words <= i < max_entries that lies in the data page, and leaves
\* the two header words alone but for the cursor's increment; the reason
\* is parity: at the first store of an entry the cursor is a whole number
\* of entry strides past header_words and max_entries has the parity of
\* header_words, so a cursor below max_entries leaves room for both words.
C26_StoresStayInsideEntries ==
  /\ [][ (AtStore /\ data' # data) =>
           /\ HEADER_SIZE <= StoreIndex
           /\ StoreIndex < data[MAX_VALID_IDX]
           /\ StoreIndex \in DOMAIN data
           /\ data'[MAX_VALID_IDX] = data[MAX_VALID_IDX]
           /\ data'[NEXT_FREE_IDX] = StoreIndex + 1
           /\ data'[StoreIndex] = IF tpos = "store1" THEN tcur[1] ELSE tcur[2]
       ]_vars
  /\ [][ (AtStore /\ tpos = "store1" /\ data' # data) =>
           /\ OnEntryBoundary(StoreIndex)
           /\ OnEntryBoundary(data[MAX_VALID_IDX])
           /\ StoreIndex + ENTRY_SIZE <= data[MAX_VALID_IDX]
       ]_vars
  /\ [][ (AtStore /\ tpos = "store2" /\ data' # data) =>
           /\ OnEntryBoundary(StoreIndex - 1)
           /\ OnEntryBoundary(StoreIndex' )
       ]_vars

\* The trampoline has just stored the second word of an entry in the last
\* word of the page: the cursor has reached max_entries.
C26_Witness ==
  /\ trun = "run" /\ tpos = "walk" /\ Len(stored) > 0
  /\ data[NEXT_FREE_IDX] = data[MAX_VALID_IDX]
  /\ data[MAX_VALID_IDX] = MaxValidIdx
  /\ data[MaxValidIdx - 1] = stored[Len(stored)][2]
  /\ data[MaxValidIdx - 2] = stored[Len(stored)][1]

(***************************************************************************)
(* Deliveries against stores                                               *)
(***************************************************************************)

\* How many times the pair e occurs in the sequence s.
Occurrences(s, e) == Cardinality({i \in 1..Len(s) : s[i] = e})

\* C27: within one heap_iterate run no entry stored by the trampoline is
\* delivered to the user callback more than once: every pair has been
\* delivered at most as many times as the trampoline has stored it, also
\* after a drain that failed partway and a later drain of the same buffer.
C27_NoEntryDeliveredTwice ==
  \A i \in 1..Len(delivered) :
    Occurrences(delivered, delivered[i]) <= Occurrences(stored, delivered[i])

(***************************************************************************)
(* The walk after a failed post-walk drain                                 *)
(***************************************************************************)

\* heap.c:158-159  the last drain was the visitor's drain after a walk,
\* and it has returned false
PostDrainFailed == dcaller = "post" /\ dpc \in {"ret", "idle"} /\ ~dret

\* The visitor returns to maps_iterate (heap.c:158-161).
VisitorReturns == vpc = "drain_ret" /\ vpc' = "idle"

\* The steps of heap_iterate begun since the last region was passed to
\* remote_malloc_iterate.
StepsSinceLastIterate ==
  LET its == {i \in 1..Len(steps) :
                /\ steps[i] = "iterate"
                /\ \A j \in (i + 1)..Len(steps) : steps[j] # "iterate"}
      last == IF its = {} THEN 0 ELSE Least(its)
  IN SubSeq(steps, last + 1, Len(steps))

\* C28: once the post-walk drain of a region has failed, no later region
\* is passed to remote malloc_iterate and the user callback is not invoked
\* again in that run, while remote malloc_enable and both munmaps are still
\* issued, in that order, and heap_iterate returns; a failed remote
\* malloc_iterate call for a region whose post-walk drain succeeds does not
\* stop the walk: maps_iterate goes on to the next line.
C28_FailedPostDrainEndsWalk ==
  /\ [][ PostDrainFailed =>
           /\ PostDrainFailed'
           /\ delivered' = delivered
           /\ Count("iterate")' = Count("iterate")
           /\ line' = line /\ vpc' \in {"drain_ret", "idle"}
           /\ ~(trun' = "run" /\ tpos' = "walk")
       ]_vars
  /\ [][ (VisitorReturns /\ ~dret) => hpc' = "enable" ]_vars
  /\ [][ (VisitorReturns /\ dret) =>
           (hpc' = "maps_loop" /\ line' = line + 1) ]_vars
  /\ [](PostDrainFailed /\ vpc = "idle" =>
          /\ hpc \in AfterWalkPcs
          /\ hpc # "enable" => Count("enable") = 1
          /\ Done => StepsSinceLastIterate =
                       <<"enable", "munmap_data", "munmap_code">>)
  /\ PostDrainFailed ~>
       (Done /\ StepsSinceLastIterate =
                  <<"enable", "munmap_data", "munmap_code">>)

\* heap_iterate has returned: the remote call for the first heap region
\* failed and its post-walk drain succeeded, the second heap region was
\* walked, its post-walk drain failed, the third heap region was never
\* passed to remote malloc_iterate, and the teardown was issued.
C28_Witness ==
  /\ Done /\ PostDrainFailed
  /\ Cardinality(SelectedLines) = 3 /\ Count("iterate") = 2
  /\ line \in SelectedLines /\ line \in walked
  /\ \E l \in SelectedLines : l < line /\ l \notin walked
  /\ \E l \in SelectedLines : l > line
  /\ Count("enable") = 1 /\ Count("munmap_data") = 1
  /\ Count("munmap_code") = 1

====
